---------------------------- MODULE Spec2Model ----------------------------
(***************************************************************************)
(* State-machine model of the task-management backend: the credential      *)
(* store (users, roles, session tokens), the authentication handlers, the  *)
(* forgot-password workflow and the project / task status handlers.        *)
(* Every handler is one action; a handler that returns a failure envelope  *)
(* commits nothing.  The response of the last request is kept in lastOp.   *)
(***************************************************************************)
EXTENDS Integers, Sequences, FiniteSets, TLC

VARIABLES
    users,      \* users table: id -> row
    roles,      \* roles table: id -> role name
    tokens,     \* user_tokens table: set of rows
    issued,     \* tokens handed out to clients so far (what a client can present)
    now,        \* wall clock, in whole seconds (the resolution of the JWT claims)
    lastOp,     \* response envelope of the last request
    sess,       \* the open, uncommitted session of a login in flight
    fpRequests, \* forgot_password_requests table: id -> row
    projects,   \* projects table: id -> row
    tasks,      \* tasks table: rows (id -> row) and seq, the last id drawn
    assignments, \* task_assignments table: set of <<task_id, user_id>>
    members,     \* project_members table: set of [project_id, user_id, role]
    comments,    \* comments table: rows (id -> row) and seq, the last id drawn
    commits,     \* how many times the last request committed its session
    inflight     \* requests in flight: what each handler has read, not yet committed

vars == <<users, roles, tokens, issued, now, lastOp, sess, fpRequests,
          projects, tasks, assignments, members, comments, commits, inflight>>

-----------------------------------------------------------------------------
(* Bounds of the model *)

NumUsers == 2
MaxTokens == 2
MaxClock == 2
NumActors == 2
MaxRequests == 2
MaxNewUsers == 1
MaxProjects == 1
MaxTasks == 1

(* Program constants *)

TOKEN_EXPIRE_HOURS == 24
SecondsPerHour == 3600

TTL == TOKEN_EXPIRE_HOURS * SecondsPerHour

-----------------------------------------------------------------------------
(* Enumerations (models/enums.py) *)

UserStatusEnum == {"banned", "active", "inactive", "pending_approval", "rejected"}
ForgotPasswordRequestEnum == {"pending_approval", "approved", "denied"}
ProjectStatusEnum == {"cancelled", "completed", "rejected", "on_hold",
                      "pending_approval", "in_progress"}
PriorityEnum == {"very_low", "low", "medium", "high", "critical"}
TaskStatusEnum == {"completed", "cancelled", "todo", "in_progress"}

-----------------------------------------------------------------------------
(* Values *)

Unset == <<>>                       \* None or "" (both are falsy in the handlers)
UserName(i) == <<"user", i>>
UserEmail(i) == <<"mail", i>>
FullName(i) == <<"name", i>>

GoodPassword == "longenough1"
WrongPassword == "wrongpass99"
EmptyPassword == ""

\* passlib bcrypt: the stored value is a digest of the password, never the password
BcryptHash(p) == <<"bcrypt", p>>
BcryptVerify(p, h) == h = <<"bcrypt", p>>

\* str(user.id) and int(payload["sub"])
StrOfInt(n) == <<"digits", n>>
ParseError == <<>>
ParseInt(s) == IF Len(s) = 2 /\ s[1] = "digits" THEN <<s[2]>> ELSE ParseError

\* the tasks table with its id sequence, before any task is created
NoTasks == [rows |-> <<>>, seq |-> 0]

NoComments == [rows |-> <<>>, seq |-> 0]

NoArg == "-"

NoToken == [sub |-> Unset, iat |-> 0, exp |-> 0, username |-> Unset,
            email |-> Unset, sig |-> "none"]

\* a bearer string that does not carry this server's signature
ForgedToken == [sub |-> StrOfInt(1), iat |-> 0, exp |-> TTL * (MaxClock + 1),
                username |-> UserName(1), email |-> UserEmail(1), sig |-> "bad"]

Lower(s) == CASE s = "Admin" -> "admin"
              [] s = "ADMIN" -> "admin"
              [] OTHER -> s

\* the instants the model visits: 0, TTL, TTL + 1, 2 TTL + 1, 2 TTL + 2, ...
ClockValues == {(k \div 2) * (TTL + 1) + (k % 2) * TTL : k \in 0..MaxClock}

Response(op, code, uid, tok, arg) ==
    [op |-> op, code |-> code, uid |-> uid, tok |-> tok, arg |-> arg]


-----------------------------------------------------------------------------
(* utils/jwt.py *)

create_access_token(u, expire_hours) ==
    [sub |-> StrOfInt(u),
     iat |-> now,
     exp |-> now + expire_hours * SecondsPerHour,
     username |-> users[u].username,
     email |-> users[u].email,
     sig |-> "valid"]

\* jwt.decode accepting whatever carries the signature
JwtDecodesExpired(t) == t.sig = "valid"

\* jwt.decode: the signature must verify and exp must not have passed
JwtDecodes(t) == t.sig = "valid" /\ ~(t.exp < now)

\* the payload has no "sub" claim: payload.get("sub") is None
Absent == <<"absent">>

\* a resolution that also refuses the token of a user who is not active
get_active_user_from_token(t) ==
    IF ~JwtDecodes(t) \/ t.sub = Absent \/ ParseInt(t.sub) = ParseError
    THEN [user |-> 0, error |-> "INVALID_TOKEN"]
    ELSE IF ParseInt(t.sub)[1] \notin DOMAIN users
    THEN [user |-> 0, error |-> "USER_NOT_FOUND"]
    ELSE IF users[ParseInt(t.sub)[1]].status # "active"
    THEN [user |-> 0, error |-> "USER_NOT_ACTIVE"]
    ELSE [user |-> ParseInt(t.sub)[1], error |-> "NONE"]

get_user_from_token(t) ==
    IF ~JwtDecodes(t)
    THEN [user |-> 0, error |-> "INVALID_TOKEN"]
    ELSE IF t.sub = Absent
    THEN \* int(None) raises TypeError, which the except clause does not name
         [user |-> 0, error |-> "INTERNAL_ERROR"]
    ELSE IF ParseInt(t.sub) = ParseError
    THEN [user |-> 0, error |-> "INVALID_TOKEN"]
    ELSE LET user_id == ParseInt(t.sub)[1]
         IN IF user_id \notin DOMAIN users
            THEN [user |-> 0, error |-> "USER_NOT_FOUND"]
            ELSE [user |-> user_id, error |-> "NONE"]

\* the roles table keeps the slot of a deleted row: ids are never drawn twice
DeletedRole == "<deleted>"
RoleIds == {r \in DOMAIN roles : roles[r] # DeletedRole}

\* role_id of a user whose role row was deleted (NULL)
NoRole == 0

\* the role row exists and is named admin (the slot of a deleted row is not)
is_admin(u) ==
    /\ users[u].role_id \in DOMAIN roles
    /\ Lower(roles[users[u].role_id]) = "admin"

require_admin_user(t) ==
    LET r == get_user_from_token(t)
    IN IF r.error # "NONE" THEN r
       ELSE IF ~is_admin(r.user) THEN [user |-> 0, error |-> "FORBIDDEN"]
       ELSE r

-----------------------------------------------------------------------------
(* routers/auth.py: login *)

\* select(User).where(username == .. | email == ..).first()
LoginLookup(username, email) ==
    IF username # Unset
    THEN {u \in DOMAIN users : users[u].username = username}
    ELSE {u \in DOMAIN users : users[u].email = email}

LoginCheckPasswordFirst(username, email, password) ==
    IF username = Unset /\ email = Unset THEN [code |-> "MISSING_CREDENTIALS", uid |-> 0]
    ELSE IF password = EmptyPassword THEN [code |-> "MISSING_CREDENTIALS", uid |-> 0]
    ELSE LET found == LoginLookup(username, email)
         IN IF found = {} THEN [code |-> "USER_NOT_FOUND", uid |-> 0]
            ELSE LET u == CHOOSE x \in found : \A y \in found : x <= y
                 IN IF ~BcryptVerify(password, users[u].password)
                    THEN [code |-> "INVALID_PASSWORD", uid |-> u]
                    ELSE IF users[u].status # "active"
                    THEN [code |-> "USER_NOT_ACTIVE", uid |-> u]
                    ELSE [code |-> "OK", uid |-> u]

\* the checks of login, in the order the handler makes them
LoginCheck(username, email, password) ==
    IF username = Unset /\ email = Unset THEN [code |-> "MISSING_CREDENTIALS", uid |-> 0]
    ELSE IF password = EmptyPassword THEN [code |-> "MISSING_CREDENTIALS", uid |-> 0]
    ELSE LET found == LoginLookup(username, email)
         IN IF found = {} THEN [code |-> "USER_NOT_FOUND", uid |-> 0]
            ELSE LET u == CHOOSE x \in found : \A y \in found : x <= y
                 IN IF users[u].status # "active"
                    THEN [code |-> "USER_NOT_ACTIVE", uid |-> u]
                    ELSE IF ~BcryptVerify(password, users[u].password)
                    THEN [code |-> "INVALID_PASSWORD", uid |-> u]
                    ELSE [code |-> "OK", uid |-> u]

ExpiredTokenRowsOfAnyUser(u) ==
    {r \in tokens : r.expires_at < now}

\* DELETE FROM user_tokens WHERE user_id = :u AND expires_at < now()
ExpiredTokenRows(u) ==
    {r \in tokens : r.user_id = u /\ r.expires_at < now}

NewTokenRow(u, tok) ==
    [user_id |-> u, token |-> tok, created_at |-> now,
     expires_at |-> now + TOKEN_EXPIRE_HOURS * SecondsPerHour]

\* what the single commit of login writes: the purge, the new row, last_login
LoginWrites(u, tok) ==
    [tokens |-> (tokens \ ExpiredTokenRows(u)) \cup {NewTokenRow(u, tok)},
     users  |-> [users EXCEPT ![u].last_login = <<now>>]]

\* user_tokens.token is UNIQUE: the INSERT of an equal token string fails
TokenUniqueViolation(u, tok) ==
    \E r \in tokens \ ExpiredTokenRows(u) : r.token = tok

Login(username, email, password) ==
    LET c == LoginCheck(username, email, password)
    IN IF c.code # "OK"
       THEN /\ lastOp' = Response("login", c.code, c.uid, NoToken, <<username, email, password>>)
            /\ UNCHANGED <<users, tokens, issued>>
       ELSE LET tok == create_access_token(c.uid, TOKEN_EXPIRE_HOURS)
                w == LoginWrites(c.uid, tok)
            IN /\ Cardinality(issued \cup {tok}) <= MaxTokens
               /\ IF TokenUniqueViolation(c.uid, tok)
                  THEN \* IntegrityError at commit: rollback, the request fails
                       /\ lastOp' = Response("login", "STORE_ERROR", c.uid, tok, <<username, email, password>>)
                       /\ UNCHANGED <<users, tokens, issued>>
                  ELSE /\ tokens' = w.tokens
                       /\ users' = w.users
                       /\ issued' = issued \cup {tok}
                       /\ lastOp' = Response("login", "OK", c.uid, tok, <<username, email, password>>)

(* routers/auth.py: logout *)

LogoutRowsOfUser(u, t) == {r \in tokens : r.user_id = u}

\* select(UserToken).where(user_id == user.id, token == token)
LogoutRows(u, t) == {r \in tokens : r.user_id = u /\ r.token = t}

Logout(t) ==
    LET r == get_user_from_token(t)
    IN IF r.error # "NONE"
       THEN /\ lastOp' = Response("logout", r.error, 0, t, NoArg)
            /\ UNCHANGED <<users, tokens, issued>>
       ELSE IF LogoutRows(r.user, t) = {}
       THEN /\ lastOp' = Response("logout", "TOKEN_NOT_FOUND", r.user, t, NoArg)
            /\ UNCHANGED <<users, tokens, issued>>
       ELSE /\ tokens' = tokens \ {CHOOSE x \in LogoutRows(r.user, t) : TRUE}
            /\ lastOp' = Response("logout", "OK", r.user, t, NoArg)
            /\ UNCHANGED <<users, issued>>

(* routers/users.py: list_users, an authenticated read *)

ListUsers(t) ==
    LET r == get_user_from_token(t)
    IN /\ lastOp' = Response("list_users", IF r.error # "NONE" THEN r.error ELSE "OK",
                             r.user, t, NoArg)
       /\ UNCHANGED <<users, tokens, issued>>

(* routers/auth.py: login as the transaction it runs in (db.py: one session per
   request, nothing is visible before commit, a failure rolls back) *)

\* no request is between its reads and its commit
NoInflight == <<>>

NoSession == [state |-> "none", uid |-> 0, tok |-> NoToken, req |-> NoArg]

\* login up to, not including, its commit: the DELETE, the add and the
\* last_login assignment are pending in the session
TxBegin(username, email, password) ==
    LET c == LoginCheck(username, email, password)
    IN /\ sess.state = "none"
       /\ IF c.code # "OK"
          THEN /\ lastOp' = Response("login", c.code, c.uid, NoToken, <<username, email, password>>)
               /\ UNCHANGED sess
          ELSE LET tok == create_access_token(c.uid, TOKEN_EXPIRE_HOURS)
               IN /\ Cardinality(issued \cup {tok}) <= MaxTokens
                  /\ sess' = [state |-> "open", uid |-> c.uid, tok |-> tok,
                              req |-> <<username, email, password>>]
                  /\ UNCHANGED lastOp
       /\ UNCHANGED <<users, tokens, issued>>

TxCommitTokenOnly ==
    /\ sess.state = "open"
    /\ ~TokenUniqueViolation(sess.uid, sess.tok)
    /\ tokens' = LoginWrites(sess.uid, sess.tok).tokens
    /\ issued' = issued \cup {sess.tok}
    /\ sess' = [sess EXCEPT !.state = "half"]
    /\ UNCHANGED <<users, lastOp>>

\* await db.commit(): every pending write becomes visible at once
TxCommit ==
    /\ sess.state = "open"
    /\ ~TokenUniqueViolation(sess.uid, sess.tok)
    /\ tokens' = LoginWrites(sess.uid, sess.tok).tokens
    /\ users' = LoginWrites(sess.uid, sess.tok).users
    /\ issued' = issued \cup {sess.tok}
    /\ lastOp' = Response("login", "OK", sess.uid, sess.tok, sess.req)
    /\ sess' = NoSession

\* the process dies or the store fails before the commit took effect:
\* get_db_context rolls back and closes, nothing pending survives
TxAbort ==
    /\ sess.state # "none"
    /\ lastOp' = Response("login", "STORE_ERROR", sess.uid, sess.tok, sess.req)
    /\ sess' = NoSession
    /\ UNCHANGED <<users, tokens, issued>>

(* the clock *)

Tick(d) ==
    /\ now + d \in ClockValues
    /\ now' = now + d
    /\ UNCHANGED <<users, roles, tokens, issued, lastOp, sess, fpRequests,
                   projects, tasks, assignments, members, comments, commits, inflight>>

-----------------------------------------------------------------------------
(* Populations *)

UserRow(i, role, status) ==
    [username |-> UserName(i), email |-> UserEmail(i), full_name |-> FullName(i),
     password |-> BcryptHash(GoodPassword), role_id |-> role, status |-> status,
     last_login |-> Unset]

InitRoles == (1 :> "Admin") @@ (2 :> "member")

NoResponse == Response("none", "NONE", 0, NoToken, NoArg)

\* user 1 is an active admin; every further user is a member in any status
\* (create_user stores whatever valid status it is given)
InitUsersAnyStatus ==
    {[i \in 1..NumUsers |->
         IF i = 1 THEN UserRow(1, 1, "active") ELSE UserRow(i, 2, st[i])] :
     st \in [2..NumUsers -> UserStatusEnum]}

Presented == issued \cup {ForgedToken}

\* login requests: by username, by email, by neither, and by both (the username wins)
LoginRequests ==
    {<<UserName(i), Unset, p>> : i \in 1..NumUsers, p \in {GoodPassword, WrongPassword}}
    \cup {<<Unset, UserEmail(i), GoodPassword>> : i \in 1..NumUsers}
    \cup {<<UserName(0), Unset, GoodPassword>>,
          <<Unset, Unset, GoodPassword>>,
          <<UserName(1), Unset, EmptyPassword>>,
          <<UserName(1), UserEmail(NumUsers), GoodPassword>>}

-----------------------------------------------------------------------------
(* Specification of the authentication service *)

Init ==
    /\ users \in InitUsersAnyStatus
    /\ roles = InitRoles
    /\ tokens = {}
    /\ issued = {}
    /\ now = 0
    /\ lastOp = NoResponse
    /\ sess = NoSession
    /\ fpRequests = <<>>
    /\ projects = <<>>
    /\ tasks = NoTasks
    /\ assignments = {}
    /\ members = {}
    /\ comments = NoComments
    /\ commits = 0
    /\ inflight = NoInflight

dataVars == <<users, roles, tokens, issued, lastOp, sess, fpRequests,
              projects, tasks, assignments, members, comments, commits, inflight>>

otherVars == <<roles, now, sess, fpRequests, projects, tasks, assignments, members, comments, commits, inflight>>

DoLogin == \E q \in LoginRequests : Login(q[1], q[2], q[3]) /\ UNCHANGED otherVars
DoLogout == \E t \in Presented : Logout(t) /\ UNCHANGED otherVars
DoListUsers == \E t \in Presented : ListUsers(t) /\ UNCHANGED otherVars
DoTick == \E d \in {1, TTL, TTL + 1} : Tick(d)

Next == DoLogin \/ DoLogout \/ DoListUsers \/ DoTick

Spec == Init /\ [][Next]_vars


-----------------------------------------------------------------------------
(* Properties of the authentication service *)

\* the step just taken is a request to handler op (its response is lastOp')
IsStep(op) ==
    /\ lastOp'.op = op
    /\ dataVars' # dataVars

HasRow(t) == \E r \in tokens : r.token = t

\* the user a login request names: the username when given, else the email
LoginTargets(q) ==
    {u \in DOMAIN users :
        IF q[1] # Unset THEN users[u].username = q[1] ELSE users[u].email = q[2]}

\* C1: a token whose row has been deleted (logout) never resolves to a
\* principal again: an authenticated request presenting it is rejected.
C1_LoggedOutTokenRejected ==
    (lastOp.op = "list_users" /\ lastOp.tok \in issued /\ ~HasRow(lastOp.tok))
        => lastOp.code # "OK"

\* C5: a login with correct credentials that directly follows a successful
\* login of the same active user succeeds too, with a different token, and
\* both tokens are stored as rows of that user.
C5_SuccessiveLoginsDistinctTokens ==
    [][(/\ lastOp.op = "login" /\ lastOp.code = "OK"
        /\ IsStep("login")
        /\ lastOp'.arg[3] = GoodPassword
        /\ LoginTargets(lastOp'.arg) = {lastOp.uid})
       => (/\ lastOp'.code = "OK"
           /\ lastOp'.tok # lastOp.tok
           /\ \A t \in {lastOp.tok, lastOp'.tok} :
                 \E r \in tokens' : r.token = t /\ r.user_id = lastOp.uid)]_vars

\* C6: a successful login removes exactly the rows of the logging-in user whose
\* expires_at is in the past; every other row stays.
C6_LoginPurgesExactlyOwnExpired ==
    [][(IsStep("login") /\ lastOp'.code = "OK")
       => (/\ \A r \in tokens \ tokens' :
                 r.user_id = lastOp'.uid /\ r.expires_at < now
           /\ \A r \in tokens :
                 (r.user_id = lastOp'.uid /\ r.expires_at < now) => r \notin tokens')]_vars

\* a login succeeded and an expired row of its user is gone
C6_Witness ==
    /\ lastOp.op = "login" /\ lastOp.code = "OK"
    /\ \E t \in issued : /\ ParseInt(t.sub) = <<lastOp.uid>>
                        /\ t.exp < now /\ ~HasRow(t)

\* C8: a login naming a user whose status is not active fails with
\* USER_NOT_ACTIVE, whether the (non-empty) password is right or wrong, and
\* writes nothing: no token row, last_login untouched.
C8_InactiveLoginRejected ==
    [][(/\ IsStep("login")
        /\ lastOp'.arg[3] # EmptyPassword
        /\ \E u \in LoginTargets(lastOp'.arg) : users[u].status # "active")
       => (/\ lastOp'.code = "USER_NOT_ACTIVE"
           /\ tokens' = tokens
           /\ users' = users)]_vars

\* a user who is not active was refused although the password was correct
C8_Witness ==
    /\ lastOp.op = "login" /\ lastOp.code = "USER_NOT_ACTIVE"
    /\ lastOp.arg[3] = GoodPassword
    /\ users[lastOp.uid].status # "active"
    /\ users[lastOp.uid].last_login = Unset
    /\ \A r \in tokens : r.user_id # lastOp.uid

\* C9: a successful logout with token T of user U deletes the row (U, T) and
\* nothing else; a logout with T that directly follows it, T still being
\* unexpired, fails with TOKEN_NOT_FOUND and changes nothing.
C9_LogoutDeletesExactlyOneRow ==
    [][/\ (IsStep("logout") /\ lastOp'.code = "OK")
          => (/\ \E r \in tokens : /\ r.user_id = lastOp'.uid
                                   /\ r.token = lastOp'.tok
                                   /\ tokens' = tokens \ {r}
              /\ ~\E r \in tokens' : r.token = lastOp'.tok
              /\ users' = users)
       /\ (/\ lastOp.op = "logout" /\ lastOp.code = "OK"
           /\ IsStep("logout")
           /\ lastOp'.tok = lastOp.tok
           /\ JwtDecodes(lastOp.tok))
          => (/\ lastOp'.code = "TOKEN_NOT_FOUND"
              /\ tokens' = tokens
              /\ users' = users)]_vars

\* the second logout with the same token was refused while another row of the
\* same user is still stored
C9_Witness ==
    /\ lastOp.op = "logout" /\ lastOp.code = "TOKEN_NOT_FOUND"
    /\ lastOp.tok \in issued
    /\ \E r \in tokens : r.user_id = lastOp.uid /\ r.token # lastOp.tok


-----------------------------------------------------------------------------
(* Specification of login as a transaction that can fail before its commit *)

restVars == <<roles, now, fpRequests, projects, tasks, assignments, members, comments, commits, inflight>>

DoTxBegin == \E q \in LoginRequests : TxBegin(q[1], q[2], q[3]) /\ UNCHANGED restVars
DoTxCommit == TxCommit /\ UNCHANGED restVars
DoTxAbort == TxAbort /\ UNCHANGED restVars
DoTxLogout == sess.state = "none" /\ DoLogout
DoTxTick == sess.state = "none" /\ DoTick

NextLoginTx == DoTxBegin \/ DoTxCommit \/ DoTxAbort \/ DoTxLogout \/ DoTxTick

SpecLoginTx == Init /\ [][NextLoginTx]_vars

\* C7: the writes of a login become visible together.  In every step of the
\* persisted state, a token row appears exactly when the last_login of its
\* user is set by the same login (to the instant the row was created), and
\* the purge of expired rows is never visible without the new row.
C7_LoginAtomic ==
    [][/\ \A r \in tokens' \ tokens :
             users'[r.user_id].last_login = <<r.created_at>>
       /\ \A u \in DOMAIN users :
             users'[u].last_login # users[u].last_login
                => \E r \in tokens' \ tokens :
                      r.user_id = u /\ <<r.created_at>> = users'[u].last_login
       /\ (tokens \ tokens' # {} /\ lastOp'.op = "login") => tokens' \ tokens # {}]_vars

\* a login was cut off before its commit and left neither a row nor a
\* last_login, after an earlier login of the same user had been committed
C7_Witness ==
    /\ lastOp.op = "login" /\ lastOp.code = "STORE_ERROR"
    /\ ~HasRow(lastOp.tok)
    /\ users[lastOp.uid].last_login # Unset
    /\ users[lastOp.uid].last_login # <<now>>


-----------------------------------------------------------------------------
(* Population of the resource services: user 1 is the admin, the others are
   members; all are active and hold the token of a login at instant 0 *)

ActorToken(i) ==
    [sub |-> StrOfInt(i), iat |-> 0, exp |-> TTL, username |-> UserName(i),
     email |-> UserEmail(i), sig |-> "valid"]

ActorRow(i) ==
    [UserRow(i, IF i = 1 THEN 1 ELSE 2, "active") EXCEPT !.last_login = <<0>>]

InitActors ==
    /\ users = [i \in 1..NumActors |-> ActorRow(i)]
    /\ roles = InitRoles
    /\ tokens = {[user_id |-> i, token |-> ActorToken(i), created_at |-> 0,
                  expires_at |-> TTL] : i \in 1..NumActors}
    /\ issued = {ActorToken(i) : i \in 1..NumActors}
    /\ now = 0
    /\ lastOp = NoResponse
    /\ sess = NoSession

-----------------------------------------------------------------------------
(* routers/auth.py: forgot_password *)

ForgotLookup(username, email, full_name) ==
    {u \in DOMAIN users :
        /\ IF username # Unset THEN users[u].username = username
                               ELSE users[u].email = email
        /\ users[u].full_name = full_name}

\* a variant of forgot_password that installs the candidate at once
ForgotPasswordDirect(username, email, full_name, new_password) ==
    LET found == ForgotLookup(username, email, full_name)
        req == <<username, email, full_name, new_password>>
    IN IF (username = Unset /\ email = Unset) \/ found = {}
       THEN /\ lastOp' = Response("forgot_password", "USER_NOT_FOUND", 0, NoToken, req)
            /\ UNCHANGED <<users, fpRequests>>
       ELSE LET u == CHOOSE x \in found : \A y \in found : x <= y
            IN /\ Len(fpRequests) < MaxRequests
               /\ fpRequests' = Append(fpRequests,
                                       [user_id |-> u,
                                        new_password |-> BcryptHash(new_password),
                                        status |-> "pending_approval"])
               /\ users' = [users EXCEPT ![u].password = BcryptHash(new_password)]
               /\ lastOp' = Response("forgot_password", "OK", u, NoToken, req)

ForgotPassword(username, email, full_name, new_password) ==
    LET found == ForgotLookup(username, email, full_name)
        req == <<username, email, full_name, new_password>>
    IN IF username = Unset /\ email = Unset
       THEN /\ lastOp' = Response("forgot_password", "MISSING_CREDENTIALS", 0, NoToken, req)
            /\ UNCHANGED <<users, fpRequests>>
       ELSE IF found = {}
       THEN /\ lastOp' = Response("forgot_password", "USER_NOT_FOUND", 0, NoToken, req)
            /\ UNCHANGED <<users, fpRequests>>
       ELSE LET u == CHOOSE x \in found : \A y \in found : x <= y
            IN /\ Len(fpRequests) < MaxRequests
               /\ fpRequests' = Append(fpRequests,
                                       [user_id |-> u,
                                        new_password |-> BcryptHash(new_password),
                                        status |-> "pending_approval"])
               /\ lastOp' = Response("forgot_password", "OK", u, NoToken, req)
               /\ UNCHANGED users

(* db.py: one session per request *)

\* a session that writes what it holds whether or not it was committed
SessionEndKeepsPending(persisted, pending, committed) == pending

\* get_db_context closes the session when the handler returns: what the
\* session holds reaches the store only if the handler committed
SessionEnd(persisted, pending, committed) ==
    IF committed THEN pending ELSE persisted

-----------------------------------------------------------------------------
(* routers/admin_requests/forgot_password.py *)

\* the router dependency: anything but an admin's token is a transport-level 403
admin_required(t) == require_admin_user(t).error = "NONE"

ApproveCheckNoState(id) ==
    IF id \notin DOMAIN fpRequests THEN "REQUEST_NOT_FOUND"
    ELSE IF fpRequests[id].user_id \notin DOMAIN users THEN "USER_NOT_FOUND"
    ELSE "OK"

ApproveCheck(id) ==
    IF id \notin DOMAIN fpRequests THEN "REQUEST_NOT_FOUND"
    ELSE IF fpRequests[id].status # "pending_approval" THEN "INVALID_STATE"
    ELSE IF fpRequests[id].user_id \notin DOMAIN users THEN "USER_NOT_FOUND"
    ELSE "OK"

\* what the session of an approve holds when the handler returns, and whether
\* it committed: request.status is assigned before the user is looked up
approve_session(t, id) ==
    LET approved == [fpRequests EXCEPT ![id].status = "approved"]
        nothing == [code |-> "HTTP_403", requests |-> fpRequests, users |-> users,
                    committed |-> FALSE]
    IN IF ~admin_required(t) THEN nothing
       ELSE IF ApproveCheck(id) \in {"REQUEST_NOT_FOUND", "INVALID_STATE"}
       THEN [nothing EXCEPT !.code = ApproveCheck(id)]
       ELSE IF ApproveCheck(id) = "USER_NOT_FOUND"
       THEN [nothing EXCEPT !.code = "USER_NOT_FOUND", !.requests = approved]
       ELSE [code |-> "OK",
             requests |-> approved,
             users |-> [users EXCEPT ![fpRequests[id].user_id].password =
                                          fpRequests[id].new_password],
             committed |-> TRUE]

approve_forgot_password_request(t, id) ==
    LET s == approve_session(t, id)
    IN /\ fpRequests' = SessionEnd(fpRequests, s.requests, s.committed)
       /\ users' = SessionEnd(users, s.users, s.committed)
       /\ lastOp' = Response("approve", s.code, get_user_from_token(t).user, t, id)

RejectCheck(id) ==
    IF id \notin DOMAIN fpRequests THEN "REQUEST_NOT_FOUND"
    ELSE IF fpRequests[id].status # "pending_approval" THEN "INVALID_STATE"
    ELSE "OK"

reject_forgot_password_request(t, id) ==
    IF ~admin_required(t)
    THEN /\ lastOp' = Response("reject", "HTTP_403", get_user_from_token(t).user, t, id)
         /\ UNCHANGED <<users, fpRequests>>
    ELSE IF RejectCheck(id) # "OK"
    THEN /\ lastOp' = Response("reject", RejectCheck(id), get_user_from_token(t).user, t, id)
         /\ UNCHANGED <<users, fpRequests>>
    ELSE /\ fpRequests' = [fpRequests EXCEPT ![id].status = "denied"]
         /\ lastOp' = Response("reject", "OK", get_user_from_token(t).user, t, id)
         /\ UNCHANGED users

-----------------------------------------------------------------------------
(* Specification of the forgot-password workflow *)

InitForgot ==
    /\ InitActors
    /\ fpRequests = <<>>
    /\ projects = <<>>
    /\ tasks = NoTasks
    /\ assignments = {}
    /\ members = {}
    /\ comments = NoComments
    /\ commits = 0
    /\ inflight = NoInflight

NewPasswords == {"newpassword1", "newpassword2"}

ForgotRequests ==
    {<<UserName(i), Unset, FullName(i), p>> : i \in {1, NumActors}, p \in NewPasswords}
    \cup {<<Unset, UserEmail(NumActors), FullName(NumActors), "newpassword1">>,
          <<Unset, Unset, FullName(1), "newpassword1">>,
          <<UserName(1), Unset, FullName(NumActors), "newpassword1">>}

RequestIds == 1..(MaxRequests + 1)

forgotRest == <<roles, tokens, issued, now, sess, projects, tasks, assignments, members, comments, commits, inflight>>

DoForgotPassword == \E q \in ForgotRequests :
    ForgotPassword(q[1], q[2], q[3], q[4]) /\ UNCHANGED forgotRest
DoApprove == \E t \in Presented, id \in RequestIds :
    approve_forgot_password_request(t, id) /\ UNCHANGED forgotRest
DoReject == \E t \in Presented, id \in RequestIds :
    reject_forgot_password_request(t, id) /\ UNCHANGED forgotRest

NextForgot == DoForgotPassword \/ DoApprove \/ DoReject

SpecForgot == InitForgot /\ [][NextForgot]_vars

\* C10: a request is processed at most once.  A resolved request (approved or
\* denied) never changes again, and an admin's approve or reject of it fails
\* with INVALID_STATE and changes neither the requests nor any user.
C10_ResolvedRequestNotReprocessed ==
    [][/\ \A id \in DOMAIN fpRequests :
             fpRequests[id].status # "pending_approval"
                => fpRequests'[id] = fpRequests[id]
       /\ (/\ IsStep("approve") \/ IsStep("reject")
           /\ lastOp'.uid \in DOMAIN users
           /\ Lower(roles[users[lastOp'.uid].role_id]) = "admin"
           /\ lastOp'.arg \in DOMAIN fpRequests
           /\ fpRequests[lastOp'.arg].status # "pending_approval")
          => (/\ lastOp'.code = "INVALID_STATE"
              /\ fpRequests' = fpRequests
              /\ users' = users)]_vars

\* a second approval of an approved request was refused, and the password the
\* user got from a later approval is still in place
C10_Witness ==
    /\ lastOp.op = "approve" /\ lastOp.code = "INVALID_STATE"
    /\ fpRequests[lastOp.arg].status = "approved"
    /\ users[fpRequests[lastOp.arg].user_id].password # fpRequests[lastOp.arg].new_password
    /\ users[fpRequests[lastOp.arg].user_id].password # BcryptHash(GoodPassword)



\* C11: submitting a forgot-password request and rejecting one leave every
\* user's password as it was; a password changes only in an admin's approval
\* of a pending request of that user, and then it is exactly the candidate hash
\* the request has carried since it was submitted.
C11_PasswordChangesOnlyByApproval ==
    [][/\ (IsStep("forgot_password") \/ IsStep("reject")) => users' = users
       /\ \A id \in DOMAIN fpRequests :
             fpRequests'[id].new_password = fpRequests[id].new_password
       /\ \A u \in DOMAIN users :
             users'[u].password # users[u].password
                => /\ lastOp'.op = "approve" /\ lastOp'.code = "OK"
                   /\ is_admin(lastOp'.uid)
                   /\ lastOp'.arg \in DOMAIN fpRequests
                   /\ fpRequests[lastOp'.arg].status = "pending_approval"
                   /\ fpRequests[lastOp'.arg].user_id = u
                   /\ users'[u].password = fpRequests[lastOp'.arg].new_password]_vars

\* an approval has just installed the candidate of one request of a user whose
\* other request, with another candidate, had been denied
C11_Witness ==
    /\ lastOp.op = "approve" /\ lastOp.code = "OK"
    /\ users[fpRequests[lastOp.arg].user_id].password = fpRequests[lastOp.arg].new_password
    /\ \E id \in DOMAIN fpRequests :
          /\ fpRequests[id].status = "denied"
          /\ fpRequests[id].user_id = fpRequests[lastOp.arg].user_id
          /\ fpRequests[id].new_password # fpRequests[lastOp.arg].new_password

-----------------------------------------------------------------------------
(* routers/users.py: create_user, delete_user *)

NotSupplied == "<not supplied>"     \* the field is absent from the request body
Null == "<null>"                    \* the field is an explicit JSON null

\* UserBase.status: Optional[str] = Field(UserStatusEnum.pending_approval.value)
UserBaseStatus(payload) ==
    IF payload.status = NotSupplied THEN "pending_approval" ELSE payload.status

\* the status create_user stores, or the error it returns for the status field
CreateUserStatus(payload) ==
    LET status == UserBaseStatus(payload)
    IN IF status # "active" /\ status # Null
       THEN IF status \notin UserStatusEnum THEN "INVALID_STATUS" ELSE status
       ELSE "active"

create_user(t, payload) ==
    LET r == require_admin_user(t)
        resp(code) == Response("create_user", code, r.user, t, payload)
    IN IF r.error # "NONE"
       THEN lastOp' = resp(r.error) /\ UNCHANGED users
       ELSE IF \E u \in DOMAIN users : users[u].username = payload.username
       THEN lastOp' = resp("USERNAME_EXISTS") /\ UNCHANGED users
       ELSE IF \E u \in DOMAIN users : users[u].email = payload.email
       THEN lastOp' = resp("EMAIL_EXISTS") /\ UNCHANGED users
       ELSE IF payload.role_id \notin RoleIds
       THEN lastOp' = resp("ROLE_NOT_FOUND") /\ UNCHANGED users
       ELSE IF CreateUserStatus(payload) = "INVALID_STATUS"
       THEN lastOp' = resp("INVALID_STATUS") /\ UNCHANGED users
       ELSE /\ Len(users) < NumActors + MaxNewUsers
            /\ users' = Append(users,
                               [username |-> payload.username,
                                email |-> payload.email,
                                full_name |-> payload.full_name,
                                password |-> BcryptHash(payload.password),
                                role_id |-> payload.role_id,
                                status |-> CreateUserStatus(payload),
                                last_login |-> Unset])
            /\ lastOp' = resp("OK")

\* delete_user removing the row
delete_user_hard(t, id) ==
    LET r == require_admin_user(t)
        resp(code) == Response("delete_user", code, r.user, t, id)
    IN IF r.error # "NONE"
       THEN lastOp' = resp(r.error) /\ UNCHANGED users
       ELSE IF id \notin DOMAIN users
       THEN lastOp' = resp("USER_NOT_FOUND") /\ UNCHANGED users
       ELSE /\ users' = [i \in DOMAIN users \ {id} |-> users[i]]
            /\ lastOp' = resp("OK")

delete_user(t, id) ==
    LET r == require_admin_user(t)
        resp(code) == Response("delete_user", code, r.user, t, id)
    IN IF r.error # "NONE"
       THEN lastOp' = resp(r.error) /\ UNCHANGED users
       ELSE IF id \notin DOMAIN users
       THEN lastOp' = resp("USER_NOT_FOUND") /\ UNCHANGED users
       ELSE /\ users' = [users EXCEPT ![id].status = "inactive"]
            /\ lastOp' = resp("OK")

-----------------------------------------------------------------------------
(* Specification of the user service *)

InitUsers ==
    /\ InitActors
    /\ fpRequests = <<>>
    /\ projects = <<>>
    /\ tasks = NoTasks
    /\ assignments = {}
    /\ members = {}
    /\ comments = NoComments
    /\ commits = 0
    /\ inflight = NoInflight

NewUserNumbers == (NumActors + 1)..(NumActors + MaxNewUsers)

UserPayload(n, e, st, r) ==
    [username |-> UserName(n), email |-> UserEmail(e), full_name |-> FullName(n),
     status |-> st, role_id |-> r, password |-> GoodPassword]

CreateUserPayloads ==
    {UserPayload(n, n, st, 2) :
        n \in NewUserNumbers,
        st \in {NotSupplied, Null, "active", "banned", "bogus"}}
    \cup {UserPayload(NumActors + 1, NumActors + 1, NotSupplied, 1),
          UserPayload(1, NumActors + 1, NotSupplied, 2),
          UserPayload(NumActors + 1, 1, NotSupplied, 2),
          UserPayload(NumActors + 1, NumActors + 1, NotSupplied, 9)}

usersRest == <<roles, tokens, issued, now, sess, fpRequests, projects, tasks, assignments, members, comments, commits, inflight>>

DoCreateUser == \E t \in Presented, q \in CreateUserPayloads :
    create_user(t, q) /\ UNCHANGED usersRest
DoDeleteUser == \E t \in Presented, id \in 1..(NumActors + MaxNewUsers + 1) :
    delete_user(t, id) /\ UNCHANGED usersRest

NextUsers == DoCreateUser \/ DoDeleteUser

SpecUsers == InitUsers /\ [][NextUsers]_vars

\* C2: a user an admin created without a status field is stored as active.
C2_AdminCreatedUserIsActive ==
    (/\ lastOp.op = "create_user" /\ lastOp.code = "OK"
     /\ lastOp.arg.status = NotSupplied)
        => \A u \in DOMAIN users :
              users[u].username = lastOp.arg.username => users[u].status = "active"

\* C23: no operation removes a User row: every user that exists stays, with
\* its identity; delete_user by an admin only sets the target's status to
\* inactive, and a caller who is not admin gets FORBIDDEN and changes nothing.
C23_UsersNeverRemoved ==
    [][/\ \A u \in DOMAIN users :
            /\ u \in DOMAIN users'
            /\ users'[u].username = users[u].username
       /\ lastOp'.op = "delete_user" =>
            (delete_user(lastOp'.tok, lastOp'.arg) =>
                /\ lastOp'.code = "OK" =>
                      /\ is_admin(lastOp'.uid)
                      /\ users' = [users EXCEPT ![lastOp'.arg].status = "inactive"]
                /\ require_admin_user(lastOp'.tok).error = "FORBIDDEN" =>
                      (lastOp'.code = "FORBIDDEN" /\ users' = users)
                /\ lastOp'.code # "OK" => users' = users)]_vars

\* an admin deleted a user created before: the row is there, inactive
C23_Witness ==
    /\ lastOp.op = "delete_user" /\ lastOp.code = "OK"
    /\ lastOp.arg > NumActors
    /\ lastOp.arg \in DOMAIN users
    /\ users[lastOp.arg].status = "inactive"


-----------------------------------------------------------------------------
(* routers/projects.py: create_project, update_project *)

NoUser == 0                         \* a NULL user reference

is_project_manager(u, project) == u = project.manager_id

\* what the projects table accepts at commit: the enum and CHECK constraints
\* and the foreign key of manager_id (models/project.py)
ProjectRowAccepted(row) ==
    /\ row.status \in ProjectStatusEnum
    /\ row.priority \in PriorityEnum
    /\ row.budget >= 0
    /\ row.manager_id = NoUser \/ row.manager_id \in DOMAIN users

\* a column left None takes its server default
ProjectPriorityStored(payload) ==
    IF payload.priority = Null THEN "medium" ELSE payload.priority

create_project(t, payload) ==
    LET r == get_user_from_token(t)
        resp(code) == Response("create_project", code, r.user, NoToken, NoArg)
        row == [status |-> "pending_approval",
                manager_id |-> r.user,
                priority |-> ProjectPriorityStored(payload),
                budget |-> payload.budget,
                description |-> payload.description]
    IN IF r.error # "NONE"
       THEN lastOp' = resp(r.error) /\ UNCHANGED projects
       ELSE /\ Len(projects) < MaxProjects
            /\ IF ~ProjectRowAccepted(row)
               THEN lastOp' = resp("STORE_ERROR") /\ UNCHANGED projects
               ELSE /\ projects' = Append(projects, row)
                    /\ lastOp' = resp("OK")

\* the keywords, one of them leading back to pending_approval
allowed_admin_statuses_reopening ==
    [approve |-> "in_progress", reject |-> "rejected", cancel |-> "cancelled",
     on_hold |-> "pending_approval"]

allowed_admin_statuses ==
    [approve |-> "in_progress", reject |-> "rejected", cancel |-> "cancelled",
     on_hold |-> "on_hold"]

Without(f, keys) == [k \in DOMAIN f \ keys |-> f[k]]

Applied(row, data) ==
    [k \in DOMAIN row |-> IF k \in DOMAIN data THEN data[k] ELSE row[k]]

\* fields a manager who is no admin may not set
NoRestrictedFields == {}

restricted_fields == {"manager_id", "priority", "budget"}

\* who may set a project completed
MayCompleteAdminOnly(admin, manager) == admin

MayComplete(admin, manager) == admin \/ manager

\* who may use a transition keyword
MayTransitionManagerToo(admin, manager) == admin \/ manager

MayTransition(admin, manager) == admin

\* update_project up to its commit: the response code and the row to write
update_project_result(u, project, project_update) ==
    LET admin == is_admin(u)
        manager == is_project_manager(u, project)
        update_data == IF manager /\ ~admin
                       THEN Without(project_update, restricted_fields)
                       ELSE project_update
        new_status == update_data["status"]
        rest == Without(update_data, {"status"})
        fail(code) == [code |-> code, row |-> project]
    IN IF /\ "status" \in DOMAIN update_data /\ new_status = "completed"
          /\ ~MayComplete(admin, manager)
       THEN fail("FORBIDDEN")
       ELSE IF /\ "status" \in DOMAIN update_data /\ new_status # "completed"
               /\ new_status \in DOMAIN allowed_admin_statuses
               /\ ~MayTransition(admin, manager)
       THEN fail("FORBIDDEN")
       ELSE IF /\ "status" \in DOMAIN update_data /\ new_status # "completed"
               /\ new_status \notin DOMAIN allowed_admin_statuses
       THEN fail("INVALID_STATUS")
       ELSE LET status == IF "status" \notin DOMAIN update_data THEN project.status
                          ELSE IF new_status = "completed" THEN "completed"
                          ELSE allowed_admin_statuses[new_status]
            IN \* project.status is assigned before the last permission check
               IF ~(admin \/ manager)
               THEN [code |-> "FORBIDDEN", row |-> [project EXCEPT !.status = status]]
               ELSE [code |-> "OK",
                     row |-> Applied([project EXCEPT !.status = status], rest)]

\* what the response record keeps of a request: its status word, and whether
\* it carries a budget
RequestTag(project_update) ==
    <<IF "status" \in DOMAIN project_update THEN project_update.status ELSE NoArg,
      "budget" \in DOMAIN project_update>>

\* what the session of an update_project holds when the handler returns, and
\* whether its commit went through
update_project_session(t, project_id, project_update) ==
    LET r == get_user_from_token(t)
        nothing(code) == [code |-> code, projects |-> projects, committed |-> FALSE]
    IN IF r.error # "NONE" THEN nothing(r.error)
       ELSE IF project_id \notin DOMAIN projects THEN nothing("PROJECT_NOT_FOUND")
       ELSE LET res == update_project_result(r.user, projects[project_id], project_update)
                held == [projects EXCEPT ![project_id] = res.row]
            IN IF res.code # "OK"
               THEN [code |-> res.code, projects |-> held, committed |-> FALSE]
               ELSE IF ~ProjectRowAccepted(res.row)
               THEN [code |-> "STORE_ERROR", projects |-> held, committed |-> FALSE]
               ELSE [code |-> "OK", projects |-> held, committed |-> TRUE]

update_project(t, project_id, project_update) ==
    LET s == update_project_session(t, project_id, project_update)
    IN /\ projects' = SessionEnd(projects, s.projects, s.committed)
       /\ lastOp' = Response("update_project", s.code, get_user_from_token(t).user,
                             NoToken, RequestTag(project_update))

-----------------------------------------------------------------------------
(* Specification of the project service *)

InitProject ==
    /\ InitActors
    /\ fpRequests = <<>>
    /\ projects = <<>>
    /\ tasks = NoTasks
    /\ assignments = {}
    /\ members = {}
    /\ comments = NoComments
    /\ commits = 0
    /\ inflight = NoInflight

ProjectPayloads ==
    {[priority |-> Null, budget |-> 0, description |-> "d1"],
     [priority |-> Null, budget |-> 0, description |-> "d1", status |-> "completed"],
     [priority |-> "bogus", budget |-> 0, description |-> "d1"]}

StatusWords ==
    {"approve", "reject", "cancel", "on_hold", "completed", "in_progress",
     "pending_approval"}

ProjectUpdates ==
    {[status |-> w] : w \in StatusWords}
    \cup {[description |-> "d2"],
          [manager_id |-> NumActors, priority |-> "high", budget |-> 50,
           description |-> "d2"],
          [status |-> "completed", manager_id |-> NumActors, priority |-> "high",
           budget |-> 50, description |-> "d2"],
          [status |-> "approve", description |-> "d2"],
          [budget |-> 0 - 1]}

\* the callers: the administrator, a member, and a stranger without a token
ProjectCallers == {ActorToken(1), ActorToken(NumActors), ForgedToken}

projectRest == <<users, roles, tokens, issued, now, sess, fpRequests, tasks, assignments, members, comments, commits, inflight>>

DoCreateProject == \E t \in ProjectCallers, q \in ProjectPayloads :
    create_project(t, q) /\ UNCHANGED projectRest
DoUpdateProject == \E t \in ProjectCallers, id \in 1..MaxProjects, q \in ProjectUpdates :
    update_project(t, id, q) /\ UNCHANGED projectRest

NextProject == DoCreateProject \/ DoUpdateProject

SpecProject == InitProject /\ [][NextProject]_vars

\* C4: a project's status changes only along the stated relation: from
\* pending_approval to in_progress, rejected, cancelled or on_hold, and from
\* any status to completed.
C4_ProjectStatusTransitions ==
    [][\A id \in DOMAIN projects :
          projects'[id].status # projects[id].status
             => \/ projects'[id].status = "completed"
                \/ /\ projects[id].status = "pending_approval"
                   /\ projects'[id].status \in {"in_progress", "rejected",
                                               "cancelled", "on_hold"}]_vars



\* the requests to update_project that a step can be: the principal u the
\* response names, and a payload with the tag the response names
StepCallers(u) ==
    {t \in ProjectCallers : get_user_from_token(t).error = "NONE"
                            /\ get_user_from_token(t).user = u}

StepUpdates(tag) == {q \in ProjectUpdates : RequestTag(q) = tag}

\* C12: a transition keyword (approve, reject, cancel, on_hold) sent by a
\* principal who is no admin, the project's manager included, fails with
\* FORBIDDEN and leaves the project as it was, whatever else the request carries.
C12_KeywordsAdminOnly ==
    [][lastOp'.op = "update_project" =>
         \A q \in StepUpdates(lastOp'.arg), t \in StepCallers(lastOp'.uid),
            id \in DOMAIN projects :
            (/\ ~is_admin(lastOp'.uid)
             /\ "status" \in DOMAIN q
             /\ q.status \in {"approve", "reject", "cancel", "on_hold"}
             /\ update_project(t, id, q))
                => (lastOp'.code = "FORBIDDEN" /\ projects' = projects)]_vars

\* the manager of a pending project, who is no admin, has just been refused a
\* transition keyword
C12_Witness ==
    /\ lastOp.op = "update_project" /\ lastOp.code = "FORBIDDEN"
    /\ lastOp.arg[1] \in {"approve", "reject", "cancel", "on_hold"}
    /\ ~is_admin(lastOp.uid)
    /\ projects # <<>>
    /\ \A id \in DOMAIN projects :
          projects[id].manager_id = lastOp.uid /\ projects[id].status = "pending_approval"

\* C13: a request that sets status completed succeeds, whatever the current
\* status, when the principal is admin or the project's manager, and fails
\* with FORBIDDEN and no change for any other principal.
C13_CompletedByAdminOrManager ==
    [][lastOp'.op = "update_project" =>
         \A q \in StepUpdates(lastOp'.arg), t \in StepCallers(lastOp'.uid),
            id \in DOMAIN projects :
            (/\ "status" \in DOMAIN q
             /\ q.status = "completed"
             /\ update_project(t, id, q))
                => IF is_admin(lastOp'.uid) \/ projects[id].manager_id = lastOp'.uid
                   THEN lastOp'.code = "OK" /\ projects'[id].status = "completed"
                   ELSE lastOp'.code = "FORBIDDEN" /\ projects' = projects]_vars

\* the manager, who is no admin, has just completed a project with a
\* status-only request
C13_Witness ==
    /\ lastOp.op = "update_project" /\ lastOp.code = "OK"
    /\ lastOp.arg = <<"completed", FALSE>>
    /\ ~is_admin(lastOp.uid)
    /\ projects # <<>>
    /\ \A id \in DOMAIN projects :
          projects[id].manager_id = lastOp.uid /\ projects[id].status = "completed"

\* C14: when the principal is the project's manager and no admin, the project's
\* manager_id, priority and budget stay as they were whatever the request
\* carries; a request that carries no status word, or the word completed, is
\* answered OK and its description is applied.
C14_ManagerRestrictedFieldsDropped ==
    [][lastOp'.op = "update_project" =>
         \A q \in StepUpdates(lastOp'.arg), t \in StepCallers(lastOp'.uid),
            id \in DOMAIN projects :
            (/\ ~is_admin(lastOp'.uid)
             /\ projects[id].manager_id = lastOp'.uid
             /\ update_project(t, id, q))
                => /\ projects'[id].manager_id = projects[id].manager_id
                   /\ projects'[id].priority = projects[id].priority
                   /\ projects'[id].budget = projects[id].budget
                   /\ ("status" \notin DOMAIN q \/ q.status = "completed")
                         => /\ lastOp'.code = "OK"
                            /\ "description" \in DOMAIN q
                                  => projects'[id].description = q.description
                            /\ "status" \in DOMAIN q
                                  => projects'[id].status = "completed"]_vars

\* the manager, who is no admin, has just sent a budget along with another
\* description: the answer is OK, the description is in place, the budget,
\* priority and manager are the old ones
C14_Witness ==
    /\ lastOp.op = "update_project" /\ lastOp.code = "OK"
    /\ lastOp.arg = <<NoArg, TRUE>>
    /\ ~is_admin(lastOp.uid)
    /\ projects # <<>>
    /\ \A id \in DOMAIN projects :
          /\ projects[id].manager_id = lastOp.uid
          /\ projects[id].description = "d2"
          /\ projects[id].budget = 0
          /\ projects[id].priority = "medium"

\* C26: pending_approval is only the status a project is created with: every
\* row that appears in the table has status pending_approval, whatever the
\* payload of its create_project request held, and a project whose status
\* is no longer pending_approval never has that status again.
C26_PendingOnlyInitial ==
    [][/\ \A id \in DOMAIN projects' \ DOMAIN projects :
             projects'[id].status = "pending_approval"
       /\ \A id \in DOMAIN projects :
             (projects[id].status # "pending_approval" /\ id \in DOMAIN projects')
                 => projects'[id].status # "pending_approval"]_vars

\* a request for the status pending_approval on a project that has left it
\* was answered, and the project did not go back
C26_Witness ==
    /\ lastOp.op = "update_project"
    /\ lastOp.arg[1] = "pending_approval"
    /\ lastOp.code = "INVALID_STATUS"
    /\ lastOp.uid = 1
    /\ \E id \in DOMAIN projects : projects[id].status = "in_progress"

-----------------------------------------------------------------------------
(* routers/tasks.py *)

\* is_project_member: the manager is a member; for anyone else the handler
\* passes a plain string to AsyncSession.execute, which raises in builds
\* that demand text() and looks the project_members row up in the others
\* the membership lookup answering yes for everybody
EveryoneIsProjectMember(u, project_id) == {"yes"}

is_project_member(u, project_id) ==
    IF project_id \notin DOMAIN projects THEN {"no"}
    ELSE IF projects[project_id].manager_id = u THEN {"yes"}
    ELSE {"raise",
          IF \E row \in members : row.project_id = project_id /\ row.user_id = u
          THEN "yes" ELSE "no"}

\* what the tasks table accepts at commit: NOT NULL enum columns and the
\* foreign key of project_id (models/project.py)
TaskRowAccepted(row) ==
    /\ row.status \in TaskStatusEnum
    /\ row.priority \in PriorityEnum
    /\ row.project_id \in DOMAIN projects

create_task(t, task) ==
    LET r == get_user_from_token(t)
        resp(code) == Response("create_task", code, r.user, NoToken, NoArg)
        id == tasks.seq + 1
        db_task == [project_id |-> task.project_id,
                    description |-> task.description,
                    priority |-> task.priority,
                    created_by |-> r.user,
                    status |-> "todo"]
    IN IF r.error # "NONE"
       THEN lastOp' = resp(r.error) /\ UNCHANGED tasks
       ELSE IF task.project_id \notin DOMAIN projects
       THEN lastOp' = resp("PROJECT_NOT_FOUND") /\ UNCHANGED tasks
       ELSE IF ~(is_admin(r.user) \/ projects[task.project_id].manager_id = r.user)
       THEN lastOp' = resp("FORBIDDEN") /\ UNCHANGED tasks
       ELSE IF task.priority \notin PriorityEnum
       THEN lastOp' = resp("INVALID_PRIORITY") /\ UNCHANGED tasks
       ELSE /\ tasks.seq < MaxTasks
            /\ tasks' = [rows |-> (id :> db_task) @@ tasks.rows, seq |-> id]
            /\ lastOp' = resp("OK")

\* the user is the manager of the project the task belongs to
IsTaskProjectManagerAlways(u, task) == TRUE

IsTaskProjectManager(u, task) ==
    /\ task.project_id \in DOMAIN projects
    /\ projects[task.project_id].manager_id = u

\* who may update a task
MayUpdateTaskAnyone(admin, manager) == TRUE

MayUpdateTask(admin, manager) == admin \/ manager

\* who may delete a task
MayDeleteTaskAnyone(admin, creator) == TRUE

MayDeleteTask(admin, creator) == admin \/ creator

\* update_task up to its commit, given how the membership lookup of the
\* target project turns out: the response code and the row to write
update_task_result(u, task_id, task_update, lookup) ==
    LET task == tasks.rows[task_id]
        has(k) == k \in DOMAIN task_update /\ task_update[k] # Null
        moves == /\ "project_id" \in DOMAIN task_update
                 /\ task_update.project_id # task.project_id
        is_user_admin == is_admin(u)
        project_manager == IsTaskProjectManager(u, task)
        is_task_assignee == <<task_id, u>> \in assignments
        fail(code) == [code |-> code, row |-> task]
    IN IF has("status") /\ task_update.status \notin TaskStatusEnum
       THEN fail("INVALID_STATUS")
       ELSE IF /\ has("status") /\ task_update.status = "cancelled"
               /\ ~(is_user_admin \/ project_manager)
       THEN fail("FORBIDDEN")
       ELSE IF has("status") /\ ~(is_user_admin \/ project_manager \/ is_task_assignee)
       THEN fail("FORBIDDEN")
       ELSE IF ~MayUpdateTask(is_user_admin, project_manager)
       THEN fail("FORBIDDEN")
       ELSE IF /\ moves
               /\ task_update.project_id \notin DOMAIN projects
       THEN fail("PROJECT_NOT_FOUND")
       ELSE IF /\ moves
               /\ ~is_user_admin /\ lookup = "raise"
       THEN fail("INTERNAL_ERROR")
       ELSE IF /\ moves
               /\ ~is_user_admin /\ lookup = "no"
       THEN fail("FORBIDDEN")
       ELSE IF has("priority") /\ task_update.priority \notin PriorityEnum
       THEN fail("INVALID_PRIORITY")
       ELSE [code |-> "OK", row |-> Applied(task, task_update)]

\* what the response record keeps of a request: its status word
TaskRequestTag(task_update) ==
    IF "status" \in DOMAIN task_update THEN task_update.status ELSE NoArg

update_task(t, task_id, task_update) ==
    LET r == get_user_from_token(t)
        resp(code) == Response("update_task", code, r.user, NoToken,
                               TaskRequestTag(task_update))
        target == IF "project_id" \in DOMAIN task_update
                  THEN task_update.project_id ELSE tasks.rows[task_id].project_id
    IN IF r.error # "NONE"
       THEN lastOp' = resp(r.error) /\ UNCHANGED tasks
       ELSE IF task_id \notin DOMAIN tasks.rows
       THEN lastOp' = resp("TASK_NOT_FOUND") /\ UNCHANGED tasks
       ELSE \E lookup \in is_project_member(r.user, target) :
            LET res == update_task_result(r.user, task_id, task_update, lookup)
            IN IF res.code # "OK"
               THEN lastOp' = resp(res.code) /\ UNCHANGED tasks
               ELSE IF ~TaskRowAccepted(res.row)
               THEN lastOp' = resp("STORE_ERROR") /\ UNCHANGED tasks
               ELSE /\ tasks' = [tasks EXCEPT !.rows[task_id] = res.row]
                    /\ lastOp' = resp("OK")

delete_task(t, task_id) ==
    LET r == get_user_from_token(t)
        resp(code) == Response("delete_task", code, r.user, NoToken, NoArg)
    IN IF r.error # "NONE"
       THEN lastOp' = resp(r.error) /\ UNCHANGED tasks
       ELSE IF task_id \notin DOMAIN tasks.rows
       THEN lastOp' = resp("TASK_NOT_FOUND") /\ UNCHANGED tasks
       ELSE IF ~MayDeleteTask(is_admin(r.user), r.user = tasks.rows[task_id].created_by)
       THEN lastOp' = resp("FORBIDDEN") /\ UNCHANGED tasks
       ELSE IF \/ \E a \in assignments : a[1] = task_id
               \/ \E c \in DOMAIN comments.rows : comments.rows[c].task_id = task_id
       THEN \* task_assignments.task_id and comments.task_id reference the row:
            \* the delete is refused
            lastOp' = resp("STORE_ERROR") /\ UNCHANGED tasks
       ELSE /\ tasks' = [tasks EXCEPT
                            !.rows = [i \in DOMAIN tasks.rows \ {task_id} |-> tasks.rows[i]]]
            /\ lastOp' = resp("OK")

assign_task(t, task_id, user_id) ==
    LET r == get_user_from_token(t)
        resp(code) == Response("assign_task", code, r.user, NoToken, NoArg)
    IN IF r.error # "NONE"
       THEN lastOp' = resp(r.error) /\ UNCHANGED assignments
       ELSE IF task_id \notin DOMAIN tasks.rows
       THEN lastOp' = resp("TASK_NOT_FOUND") /\ UNCHANGED assignments
       ELSE \E lookup \in is_project_member(r.user, tasks.rows[task_id].project_id) :
            LET direct == is_admin(r.user) \/ r.user = tasks.rows[task_id].created_by
            IN IF ~direct /\ lookup = "raise"
               THEN lastOp' = resp("INTERNAL_ERROR") /\ UNCHANGED assignments
               ELSE IF ~direct /\ lookup = "no"
               THEN lastOp' = resp("FORBIDDEN") /\ UNCHANGED assignments
               ELSE IF user_id \notin DOMAIN users
               THEN lastOp' = resp("USER_NOT_FOUND") /\ UNCHANGED assignments
               ELSE IF <<task_id, user_id>> \in assignments
               THEN lastOp' = resp("ALREADY_ASSIGNED") /\ UNCHANGED assignments
               ELSE /\ assignments' = assignments \cup {<<task_id, user_id>>}
                    /\ lastOp' = resp("OK")

unassign_task(t, task_id, user_id) ==
    LET r == get_user_from_token(t)
        resp(code) == Response("unassign_task", code, r.user, NoToken, NoArg)
    IN IF r.error # "NONE"
       THEN lastOp' = resp(r.error) /\ UNCHANGED assignments
       ELSE IF task_id \notin DOMAIN tasks.rows
       THEN lastOp' = resp("TASK_NOT_FOUND") /\ UNCHANGED assignments
       ELSE \E lookup \in is_project_member(r.user, tasks.rows[task_id].project_id) :
            LET allowed == \/ is_admin(r.user)
                           \/ r.user = tasks.rows[task_id].created_by
                           \/ lookup = "yes"
                           \/ r.user = user_id
            IN IF lookup = "raise"
               THEN lastOp' = resp("INTERNAL_ERROR") /\ UNCHANGED assignments
               ELSE IF ~allowed
               THEN lastOp' = resp("FORBIDDEN") /\ UNCHANGED assignments
               ELSE IF <<task_id, user_id>> \notin assignments
               THEN lastOp' = resp("ASSIGNMENT_NOT_FOUND") /\ UNCHANGED assignments
               ELSE /\ assignments' = assignments \ {<<task_id, user_id>>}
                    /\ lastOp' = resp("OK")

-----------------------------------------------------------------------------
(* Specification of the task service *)

\* a project as create_project stores it for manager m
ProjectOf(m) ==
    [status |-> "pending_approval", manager_id |-> m, priority |-> "medium",
     budget |-> 0, description |-> "d1"]

\* the projects exist already: the first created by the administrator or by a
\* member, the others by the administrator
InitTask ==
    /\ InitActors
    /\ fpRequests = <<>>
    /\ \E m \in {1, NumActors} :
          projects = [i \in 1..MaxProjects |-> ProjectOf(IF i = 1 THEN m ELSE 1)]
    /\ tasks = NoTasks
    /\ assignments = {}
    /\ members = {}
    /\ comments = NoComments
    /\ commits = 0
    /\ inflight = NoInflight

TaskPayloads ==
    {[project_id |-> 1, priority |-> "medium", description |-> "d1"],
     [project_id |-> 1, priority |-> "bogus", description |-> "d1"],
     [project_id |-> MaxProjects + 1, priority |-> "medium", description |-> "d1"]}

TaskUpdates ==
    {[status |-> w] : w \in TaskStatusEnum \cup {"bogus"}}
    \cup {[description |-> "d2", priority |-> "high"],
          [priority |-> "bogus"],
          [project_id |-> MaxProjects + 1]}

TaskCallers == {ActorToken(1), ActorToken(NumActors), ForgedToken}

Assignees == {NumActors, NumActors + 1}

taskRest == <<users, roles, tokens, issued, now, sess, fpRequests, projects, members, comments, commits, inflight>>

DoCreateTask == \E t \in TaskCallers, q \in TaskPayloads :
    create_task(t, q) /\ UNCHANGED <<assignments, taskRest>>
DoUpdateTask == \E t \in TaskCallers, id \in 1..MaxTasks, q \in TaskUpdates :
    update_task(t, id, q) /\ UNCHANGED <<assignments, taskRest>>
DoDeleteTask == \E t \in TaskCallers, id \in 1..MaxTasks :
    delete_task(t, id) /\ UNCHANGED <<assignments, taskRest>>
DoAssignTask == \E t \in TaskCallers, id \in 1..MaxTasks, u \in Assignees :
    assign_task(t, id, u) /\ UNCHANGED <<tasks, taskRest>>
DoUnassignTask == \E t \in TaskCallers, id \in 1..MaxTasks, u \in {NumActors} :
    unassign_task(t, id, u) /\ UNCHANGED <<tasks, taskRest>>

NextTask ==
    DoCreateTask \/ DoUpdateTask \/ DoDeleteTask \/ DoAssignTask \/ DoUnassignTask

SpecTask == InitTask /\ [][NextTask]_vars

\* C3: a status-only update to todo, in_progress or completed by a user who
\* is assigned to the task and is neither admin nor the manager of the task's
\* project succeeds and stores the new status.
C3_AssigneeStatusUpdateSucceeds ==
    [][\A t \in TaskCallers, id \in DOMAIN tasks.rows,
          s \in {"todo", "in_progress", "completed"} :
          LET r == get_user_from_token(t)
          IN (/\ r.error = "NONE"
              /\ <<id, r.user>> \in assignments
              /\ ~is_admin(r.user)
              /\ projects[tasks.rows[id].project_id].manager_id # r.user
              /\ update_task(t, id, [status |-> s]))
                 => (lastOp'.code = "OK" /\ tasks'.rows[id].status = s)]_vars


-----------------------------------------------------------------------------
(* routers/projects.py: project members *)

\* who may add and remove members
MayManageMembersAnyone(admin, manager) == TRUE

MayManageMembers(admin, manager) == admin \/ manager

\* the membership rows of a (project, user) pair
NoExistingMember(project_id, user_id) == {}

existing_member(project_id, user_id) ==
    {row \in members : row.project_id = project_id /\ row.user_id = user_id}

\* the user to remove is the project's manager
NeverManagerRow(project, user_id) == FALSE

IsManagerRow(project, user_id) == user_id = project.manager_id

\* uq_project_user: one row per (project_id, user_id)
MemberUniqueViolation(row) ==
    \E other \in members :
        other.project_id = row.project_id /\ other.user_id = row.user_id

add_project_member(t, project_id, member) ==
    LET r == get_user_from_token(t)
        resp(code) == Response("add_project_member", code, r.user, NoToken,
                               <<project_id, member.user_id>>)
        db_member == [project_id |-> project_id, user_id |-> member.user_id,
                      role |-> member.role]
    IN IF r.error # "NONE"
       THEN lastOp' = resp(r.error) /\ UNCHANGED members
       ELSE IF project_id \notin DOMAIN projects
       THEN lastOp' = resp("PROJECT_NOT_FOUND") /\ UNCHANGED members
       ELSE IF ~MayManageMembers(is_admin(r.user),
                                 is_project_manager(r.user, projects[project_id]))
       THEN lastOp' = resp("FORBIDDEN") /\ UNCHANGED members
       ELSE IF member.user_id \notin DOMAIN users
       THEN lastOp' = resp("USER_NOT_FOUND") /\ UNCHANGED members
       ELSE IF existing_member(project_id, member.user_id) # {}
       THEN lastOp' = resp("ALREADY_MEMBER") /\ UNCHANGED members
       ELSE IF MemberUniqueViolation(db_member)
       THEN lastOp' = resp("STORE_ERROR") /\ UNCHANGED members
       ELSE /\ members' = members \cup {db_member}
            /\ lastOp' = resp("OK")

remove_project_member(t, project_id, user_id) ==
    LET r == get_user_from_token(t)
        resp(code) == Response("remove_project_member", code, r.user, NoToken,
                               <<project_id, user_id>>)
    IN IF r.error # "NONE"
       THEN lastOp' = resp(r.error) /\ UNCHANGED members
       ELSE IF project_id \notin DOMAIN projects
       THEN lastOp' = resp("PROJECT_NOT_FOUND") /\ UNCHANGED members
       ELSE IF ~MayManageMembers(is_admin(r.user),
                                 is_project_manager(r.user, projects[project_id]))
       THEN lastOp' = resp("FORBIDDEN") /\ UNCHANGED members
       ELSE IF existing_member(project_id, user_id) = {}
       THEN lastOp' = resp("MEMBER_NOT_FOUND") /\ UNCHANGED members
       ELSE IF IsManagerRow(projects[project_id], user_id)
       THEN lastOp' = resp("CANNOT_REMOVE_MANAGER") /\ UNCHANGED members
       ELSE /\ members' = members \ existing_member(project_id, user_id)
            /\ lastOp' = resp("OK")

-----------------------------------------------------------------------------
(* Specification of project membership: the projects exist, members are added
   and removed, and the manager of a project is changed *)

MemberPayloads ==
    {[user_id |-> u, role |-> l] : u \in {1, NumActors, NumActors + 1},
                                   l \in {"developer", "reviewer"}}

ManagerUpdates == {[manager_id |-> m] : m \in {1, NumActors}}

memberRest ==
    <<users, roles, tokens, issued, now, sess, fpRequests, tasks, assignments, comments, commits, inflight>>

DoAddMember == \E t \in ProjectCallers, id \in 1..(MaxProjects + 1), q \in MemberPayloads :
    add_project_member(t, id, q) /\ UNCHANGED <<projects, memberRest>>
DoRemoveMember ==
    \E t \in ProjectCallers, id \in 1..(MaxProjects + 1), u \in {1, NumActors} :
        remove_project_member(t, id, u) /\ UNCHANGED <<projects, memberRest>>
DoChangeManager == \E t \in ProjectCallers, id \in 1..MaxProjects, q \in ManagerUpdates :
    update_project(t, id, q) /\ UNCHANGED <<members, memberRest>>

NextMember == DoAddMember \/ DoRemoveMember \/ DoChangeManager

SpecMember == InitTask /\ [][NextMember]_vars


\* C15: the membership rows of a project change only in a successful
\* add_project_member or remove_project_member for that project by a principal
\* who is admin or the project's manager at that time; such a request by anyone
\* else is answered FORBIDDEN and changes no row.
C15_MembersChangedByAdminOrManager ==
    [][/\ members' # members
          => /\ lastOp'.op \in {"add_project_member", "remove_project_member"}
             /\ lastOp'.code = "OK"
             /\ lastOp'.arg[1] \in DOMAIN projects
             /\ \/ is_admin(lastOp'.uid)
                \/ projects[lastOp'.arg[1]].manager_id = lastOp'.uid
             /\ \A row \in (members' \ members) \cup (members \ members') :
                   row.project_id = lastOp'.arg[1]
       /\ lastOp'.op \in {"add_project_member", "remove_project_member"}
          => \A t \in StepCallers(lastOp'.uid), id \in DOMAIN projects,
                q \in MemberPayloads :
                (/\ lastOp'.arg = <<id, q.user_id>>
                 /\ ~is_admin(lastOp'.uid)
                 /\ projects[id].manager_id # lastOp'.uid
                 /\ \/ add_project_member(t, id, q)
                    \/ remove_project_member(t, id, q.user_id))
                   => (lastOp'.code = "FORBIDDEN" /\ members' = members)]_vars

\* a principal who is neither admin nor manager of any project has just been
\* refused the removal of a member who has a row
C15_Witness ==
    /\ lastOp.op = "remove_project_member" /\ lastOp.code = "FORBIDDEN"
    /\ ~is_admin(lastOp.uid)
    /\ \A id \in DOMAIN projects : projects[id].manager_id # lastOp.uid
    /\ existing_member(lastOp.arg[1], lastOp.arg[2]) # {}

\* C16: remove_project_member by an admin or the manager, for a user who is
\* the project's manager and has a membership row, is answered
\* CANNOT_REMOVE_MANAGER and the row remains; no step removes the row of the
\* user who is the manager at that time.
C16_ManagerRowNotRemoved ==
    [][/\ \A row \in members \ members' :
             row.user_id # projects[row.project_id].manager_id
       /\ lastOp'.op = "remove_project_member"
          => \A t \in StepCallers(lastOp'.uid), id \in DOMAIN projects :
                (/\ lastOp'.arg = <<id, projects[id].manager_id>>
                 /\ is_admin(lastOp'.uid) \/ projects[id].manager_id = lastOp'.uid
                 /\ existing_member(id, projects[id].manager_id) # {}
                 /\ remove_project_member(t, id, projects[id].manager_id))
                   => (lastOp'.code = "CANNOT_REMOVE_MANAGER" /\ members' = members)]_vars

\* an admin has just been refused the removal of the row of a manager who is
\* not the admin
C16_Witness ==
    /\ lastOp.op = "remove_project_member" /\ lastOp.code = "CANNOT_REMOVE_MANAGER"
    /\ is_admin(lastOp.uid)
    /\ lastOp.arg[2] # lastOp.uid
    /\ projects[lastOp.arg[1]].manager_id = lastOp.arg[2]
    /\ existing_member(lastOp.arg[1], lastOp.arg[2]) # {}

\* two rows of one (project, user) pair are the same row
OneRowPerPair ==
    \A r1 \in members, r2 \in members :
        (r1.project_id = r2.project_id /\ r1.user_id = r2.user_id) => r1 = r2

\* C17: adding a (project, user) pair that has a row already is answered
\* ALREADY_MEMBER and writes nothing, whatever role the request names; there is
\* never more than one row for a pair.
C17_ReAddRefused ==
    [][/\ OneRowPerPair'
       /\ lastOp'.op = "add_project_member"
          => \A t \in StepCallers(lastOp'.uid), id \in DOMAIN projects,
                q \in MemberPayloads :
                (/\ lastOp'.arg = <<id, q.user_id>>
                 /\ is_admin(lastOp'.uid) \/ projects[id].manager_id = lastOp'.uid
                 /\ \E row \in members : row.project_id = id /\ row.user_id = q.user_id
                 /\ add_project_member(t, id, q))
                   => (lastOp'.code = "ALREADY_MEMBER" /\ members' = members)]_vars

\* a re-add has just been refused, and the pair still has its one row
C17_Witness ==
    /\ lastOp.op = "add_project_member" /\ lastOp.code = "ALREADY_MEMBER"
    /\ Cardinality(existing_member(lastOp.arg[1], lastOp.arg[2])) = 1
    /\ Cardinality(members) > 1


-----------------------------------------------------------------------------
\* Who may change or delete a task (routers/tasks.py)

\* tasks are created, assigned and updated
NextTaskUpdate == DoCreateTask \/ DoAssignTask \/ DoUpdateTask

SpecTaskUpdate == InitTask /\ [][NextTaskUpdate]_vars

\* tasks are created, assigned, unassigned and deleted
NextTaskDelete == DoCreateTask \/ DoAssignTask \/ DoUnassignTask \/ DoDeleteTask

SpecTaskDelete == InitTask /\ [][NextTaskDelete]_vars

\* the callers of a step whose response names user u
TaskStepCallers(u) ==
    {t \in TaskCallers : /\ get_user_from_token(t).error = "NONE"
                         /\ get_user_from_token(t).user = u}

ManagesTask(u, task) ==
    /\ task.project_id \in DOMAIN projects
    /\ projects[task.project_id].manager_id = u

\* C18: a task's status becomes "cancelled" only through an update_task made
\* by an admin or by the manager of the task's project; a request to cancel
\* made by anyone else, the task's assignee included, is answered FORBIDDEN
\* and leaves the task as it was.
C18_CancelledByAdminOrManager ==
    [][/\ \A id \in DOMAIN tasks'.rows :
            (/\ tasks'.rows[id].status = "cancelled"
             /\ (id \notin DOMAIN tasks.rows \/ tasks.rows[id].status # "cancelled"))
                => /\ id \in DOMAIN tasks.rows
                   /\ lastOp'.op = "update_task"
                   /\ lastOp'.code = "OK"
                   /\ (is_admin(lastOp'.uid) \/ ManagesTask(lastOp'.uid, tasks.rows[id]))
       /\ (lastOp'.op = "update_task" /\ lastOp'.arg = "cancelled") =>
            \A t \in TaskStepCallers(lastOp'.uid), id \in DOMAIN tasks.rows :
               (/\ ~is_admin(lastOp'.uid)
                /\ ~ManagesTask(lastOp'.uid, tasks.rows[id])
                /\ update_task(t, id, [status |-> "cancelled"]))
                   => (lastOp'.code = "FORBIDDEN" /\ tasks' = tasks)]_vars

\* the assignee of a task, neither admin nor manager of its project, asked to
\* cancel it and was refused
C18_Witness ==
    /\ lastOp.op = "update_task"
    /\ lastOp.arg = "cancelled"
    /\ lastOp.code = "FORBIDDEN"
    /\ ~is_admin(lastOp.uid)
    /\ DOMAIN tasks.rows # {}
    /\ \A id \in DOMAIN tasks.rows :
          /\ <<id, lastOp.uid>> \in assignments
          /\ ~ManagesTask(lastOp.uid, tasks.rows[id])
          /\ tasks.rows[id].status = "todo"

\* the fields of a task row other than its status
OtherFields(task) == [k \in DOMAIN task \ {"status"} |-> task[k]]

\* C19: the fields of a task other than its status change only through an
\* update_task made by an admin or by the manager of the task's current
\* project; an update by anyone else never changes them.
C19_FieldsByAdminOrManager ==
    [][\A id \in DOMAIN tasks.rows \cap DOMAIN tasks'.rows :
          OtherFields(tasks'.rows[id]) # OtherFields(tasks.rows[id])
              => /\ lastOp'.op = "update_task"
                 /\ lastOp'.code = "OK"
                 /\ (is_admin(lastOp'.uid) \/ ManagesTask(lastOp'.uid, tasks.rows[id]))]_vars

\* the assignee of a task, neither admin nor manager of its project, sent an
\* update without a status and was refused
C19_Witness ==
    /\ lastOp.op = "update_task"
    /\ lastOp.arg = NoArg
    /\ lastOp.code = "FORBIDDEN"
    /\ ~is_admin(lastOp.uid)
    /\ DOMAIN tasks.rows # {}
    /\ \A id \in DOMAIN tasks.rows :
          /\ <<id, lastOp.uid>> \in assignments
          /\ ~ManagesTask(lastOp.uid, tasks.rows[id])

\* C20: delete_task removes a task only for an admin or for the user in the
\* task's created_by; the manager of the task's project who is neither is
\* answered FORBIDDEN and the task remains.
C20_DeleteByAdminOrCreator ==
    [][/\ \A id \in DOMAIN tasks.rows \ DOMAIN tasks'.rows :
            /\ lastOp'.op = "delete_task"
            /\ lastOp'.code = "OK"
            /\ (is_admin(lastOp'.uid) \/ tasks.rows[id].created_by = lastOp'.uid)
       /\ lastOp'.op = "delete_task" =>
            \A t \in TaskStepCallers(lastOp'.uid), id \in DOMAIN tasks.rows :
               (/\ ~is_admin(lastOp'.uid)
                /\ tasks.rows[id].created_by # lastOp'.uid
                /\ ManagesTask(lastOp'.uid, tasks.rows[id])
                /\ delete_task(t, id))
                   => (lastOp'.code = "FORBIDDEN" /\ tasks' = tasks)]_vars

\* the manager of a task's project, neither admin nor its creator, asked to
\* delete it and was refused
C20_Witness ==
    /\ lastOp.op = "delete_task"
    /\ lastOp.code = "FORBIDDEN"
    /\ ~is_admin(lastOp.uid)
    /\ DOMAIN tasks.rows # {}
    /\ \A id \in DOMAIN tasks.rows :
          /\ ManagesTask(lastOp.uid, tasks.rows[id])
          /\ tasks.rows[id].created_by # lastOp.uid


-----------------------------------------------------------------------------
\* Who may assign and unassign (routers/tasks.py)

AssignTargets == {1, NumActors, NumActors + 1}

DoAssignAny == \E t \in TaskCallers, id \in 1..MaxTasks, u \in AssignTargets :
    assign_task(t, id, u) /\ UNCHANGED <<tasks, taskRest>>
DoUnassignAny == \E t \in TaskCallers, id \in 1..MaxTasks, u \in AssignTargets :
    unassign_task(t, id, u) /\ UNCHANGED <<tasks, taskRest>>

\* the projects exist, and the last actor may hold a ProjectMember row of the
\* first
InitAssign ==
    /\ InitActors
    /\ fpRequests = <<>>
    /\ \E m \in {1, NumActors} :
          projects = [i \in 1..MaxProjects |-> ProjectOf(IF i = 1 THEN m ELSE 1)]
    /\ tasks = NoTasks
    /\ assignments = {}
    /\ members \in {{}, {[project_id |-> 1, user_id |-> NumActors, role |-> "developer"]}}
    /\ comments = NoComments
    /\ commits = 0
    /\ inflight = NoInflight

\* tasks are created, managers change, users are assigned and unassigned
NextAssign == DoCreateTask \/ DoChangeManager \/ DoAssignAny \/ DoUnassignAny

SpecAssign == InitAssign /\ [][NextAssign]_vars

\* admin, the task's creator, the manager of the task's project or the holder
\* of a ProjectMember row of it
MayAssign(u, task) ==
    \/ is_admin(u)
    \/ u = task.created_by
    \/ ManagesTask(u, task)
    \/ \E row \in members : row.project_id = task.project_id /\ row.user_id = u

\* rows of task_assignments appear and disappear only through the two
\* handlers, called by an actor they allow
AssignmentsChangedByPermitted ==
    /\ \A a \in assignments' \ assignments :
          /\ lastOp'.op = "assign_task"
          /\ lastOp'.code = "OK"
          /\ a[1] \in DOMAIN tasks.rows
          /\ MayAssign(lastOp'.uid, tasks.rows[a[1]])
    /\ \A a \in assignments \ assignments' :
          /\ lastOp'.op = "unassign_task"
          /\ lastOp'.code = "OK"
          /\ a[1] \in DOMAIN tasks.rows
          /\ (MayAssign(lastOp'.uid, tasks.rows[a[1]]) \/ a[2] = lastOp'.uid)

\* every request of an actor the handlers do not allow ends with one of codes
OthersRefusedWith(codes) ==
    /\ lastOp'.op = "assign_task" =>
          \A t \in TaskStepCallers(lastOp'.uid), id \in DOMAIN tasks.rows,
             u \in AssignTargets :
             (~MayAssign(lastOp'.uid, tasks.rows[id]) /\ assign_task(t, id, u))
                => (lastOp'.code \in codes /\ assignments' = assignments)
    /\ lastOp'.op = "unassign_task" =>
          \A t \in TaskStepCallers(lastOp'.uid), id \in DOMAIN tasks.rows,
             u \in AssignTargets \ {lastOp'.uid} :
             (~MayAssign(lastOp'.uid, tasks.rows[id]) /\ unassign_task(t, id, u))
                => (lastOp'.code \in codes /\ assignments' = assignments)

-----------------------------------------------------------------------------
(* routers/comments.py *)

MaxComments == 1

\* a comment's text is a sequence of characters
Whitespace == {" "}

\* str.strip(): the text without its leading and trailing whitespace
RECURSIVE strip(_)
strip(content) ==
    IF content = <<>> THEN <<>>
    ELSE IF Head(content) \in Whitespace THEN strip(Tail(content))
    ELSE IF content[Len(content)] \in Whitespace
    THEN strip(SubSeq(content, 1, Len(content) - 1))
    ELSE content

\* who may update or delete a comment
MayEditCommentAnyone(admin, author) == TRUE

MayEditComment(admin, author) == admin \/ author

create_task_comment(t, task_id, comment) ==
    LET r == get_user_from_token(t)
        resp(code) == Response("create_task_comment", code, r.user, NoToken, NoArg)
        id == comments.seq + 1
        db_comment == [task_id |-> task_id, user_id |-> r.user,
                       content |-> comment.content]
    IN IF r.error # "NONE"
       THEN lastOp' = resp(r.error) /\ UNCHANGED comments
       ELSE IF task_id \notin DOMAIN tasks.rows
       THEN lastOp' = resp("TASK_NOT_FOUND") /\ UNCHANGED comments
       ELSE \E lookup \in is_project_member(r.user, tasks.rows[task_id].project_id) :
            IF lookup = "raise"
            THEN lastOp' = resp("INTERNAL_ERROR") /\ UNCHANGED comments
            ELSE IF ~(is_admin(r.user) \/ lookup = "yes")
            THEN lastOp' = resp("FORBIDDEN") /\ UNCHANGED comments
            ELSE IF strip(comment.content) = <<>>
            THEN lastOp' = resp("INVALID_CONTENT") /\ UNCHANGED comments
            ELSE /\ comments.seq < MaxComments
                 /\ comments' = [rows |-> (id :> db_comment) @@ comments.rows,
                                 seq |-> id]
                 /\ lastOp' = resp("OK")

update_comment(t, id, comment_update) ==
    LET r == get_user_from_token(t)
        resp(code) == Response("update_comment", code, r.user, NoToken, NoArg)
    IN IF r.error # "NONE"
       THEN lastOp' = resp(r.error) /\ UNCHANGED comments
       ELSE IF id \notin DOMAIN comments.rows
       THEN lastOp' = resp("COMMENT_NOT_FOUND") /\ UNCHANGED comments
       ELSE IF ~MayEditComment(is_admin(r.user), r.user = comments.rows[id].user_id)
       THEN lastOp' = resp("FORBIDDEN") /\ UNCHANGED comments
       ELSE IF /\ "content" \in DOMAIN comment_update
               /\ strip(comment_update.content) = <<>>
       THEN lastOp' = resp("INVALID_CONTENT") /\ UNCHANGED comments
       ELSE /\ comments' = [comments EXCEPT
                               !.rows[id] = Applied(comments.rows[id], comment_update)]
            /\ lastOp' = resp("OK")

delete_comment(t, id) ==
    LET r == get_user_from_token(t)
        resp(code) == Response("delete_comment", code, r.user, NoToken, NoArg)
    IN IF r.error # "NONE"
       THEN lastOp' = resp(r.error) /\ UNCHANGED comments
       ELSE IF id \notin DOMAIN comments.rows
       THEN lastOp' = resp("COMMENT_NOT_FOUND") /\ UNCHANGED comments
       ELSE IF ~MayEditComment(is_admin(r.user), r.user = comments.rows[id].user_id)
       THEN lastOp' = resp("FORBIDDEN") /\ UNCHANGED comments
       ELSE /\ comments' = [comments EXCEPT
                               !.rows = [i \in DOMAIN comments.rows \ {id}
                                            |-> comments.rows[i]]]
            /\ lastOp' = resp("OK")

-----------------------------------------------------------------------------
(* Specification of the comments of a task: the projects exist, tasks are
   created, the first project changes its manager, comments are written,
   edited and deleted *)

CommentTexts == {<<"a">>, <<"b", " ">>, <<" ", " ">>, <<>>}

CommentUpdates == {[content |-> c] : c \in CommentTexts} \cup {<<>>}

CommentCallers == {ActorToken(1), ActorToken(NumActors), ForgedToken}

commentRest ==
    <<users, roles, tokens, issued, now, sess, fpRequests, projects, tasks,
      assignments, members, commits, inflight>>

TaskOf(m) ==
    [project_id |-> 1, description |-> "d1", priority |-> "medium",
     created_by |-> m, status |-> "todo"]

\* the first task exists, created by the administrator
InitComment ==
    /\ InitActors
    /\ fpRequests = <<>>
    /\ \E m \in {1, NumActors} :
          projects = [i \in 1..MaxProjects |-> ProjectOf(IF i = 1 THEN m ELSE 1)]
    /\ tasks = [rows |-> [i \in 1..MaxTasks |-> TaskOf(1)], seq |-> MaxTasks]
    /\ assignments = {}
    /\ members \in {{}, {[project_id |-> 1, user_id |-> NumActors, role |-> "developer"]}}
    /\ comments = NoComments
    /\ commits = 0
    /\ inflight = NoInflight

DoCreateComment ==
    \E t \in CommentCallers, id \in 1..(MaxTasks + 1), c \in CommentTexts :
        create_task_comment(t, id, [content |-> c])
        /\ UNCHANGED commentRest
DoUpdateComment ==
    \E t \in CommentCallers, id \in 1..MaxComments, q \in CommentUpdates :
        update_comment(t, id, q) /\ UNCHANGED commentRest
DoDeleteComment == \E t \in CommentCallers, id \in 1..MaxComments :
    delete_comment(t, id) /\ UNCHANGED commentRest
DoCommentManager == \E t \in CommentCallers, q \in ManagerUpdates :
    update_project(t, 1, q)
    /\ UNCHANGED <<users, roles, tokens, issued, now, sess, fpRequests, tasks,
                   assignments, members, comments, commits, inflight>>

NextComment ==
    DoCreateComment \/ DoUpdateComment \/ DoDeleteComment \/ DoCommentManager

SpecComment == InitComment /\ [][NextComment]_vars

\* the callers of a step whose response names user u
CommentStepCallers(u) ==
    {t \in CommentCallers : /\ get_user_from_token(t).error = "NONE"
                            /\ get_user_from_token(t).user = u}

\* u manages the project of the task the comment is written on
ManagesCommentProject(u, comment) ==
    /\ comment.task_id \in DOMAIN tasks.rows
    /\ ManagesTask(u, tasks.rows[comment.task_id])

\* C22: a comment is updated or deleted only by an admin or by its author;
\* the manager of the project of the comment's task, when neither, gets
\* FORBIDDEN on both operations and the comment is unchanged.
C22_CommentEditedByAdminOrAuthor ==
    [][/\ \A id \in DOMAIN comments.rows :
            (id \notin DOMAIN comments'.rows \/ comments'.rows[id] # comments.rows[id])
                => /\ lastOp'.op \in {"update_comment", "delete_comment"}
                   /\ lastOp'.code = "OK"
                   /\ \/ is_admin(lastOp'.uid)
                      \/ comments.rows[id].user_id = lastOp'.uid
       /\ lastOp'.op \in {"update_comment", "delete_comment"} =>
            \A t \in CommentStepCallers(lastOp'.uid), id \in DOMAIN comments.rows :
               (/\ ~is_admin(lastOp'.uid)
                /\ comments.rows[id].user_id # lastOp'.uid
                /\ ManagesCommentProject(lastOp'.uid, comments.rows[id])
                /\ \/ delete_comment(t, id)
                   \/ \E q \in CommentUpdates : update_comment(t, id, q))
                   => (lastOp'.code = "FORBIDDEN" /\ comments' = comments)]_vars

\* the manager of the project, neither admin nor author of the comment, asked
\* to delete it and was refused
C22_Witness ==
    /\ lastOp.op = "delete_comment"
    /\ lastOp.code = "FORBIDDEN"
    /\ ~is_admin(lastOp.uid)
    /\ DOMAIN comments.rows # {}
    /\ \A id \in DOMAIN comments.rows :
          /\ comments.rows[id].user_id # lastOp.uid
          /\ ManagesCommentProject(lastOp.uid, comments.rows[id])


-----------------------------------------------------------------------------
(* Specification of principal resolution (utils/jwt.py): tokens of every
   shape are presented to an authenticated operation while time passes and
   token rows are deleted by logout *)

Subjects ==
    {StrOfInt(1), StrOfInt(NumActors), StrOfInt(NumActors + 1), <<"text", "abc">>,
     Absent}

ResolveTokens ==
    {[ActorToken(1) EXCEPT !.sub = s, !.sig = g] :
        s \in Subjects, g \in {"valid", "bad"}}

DoResolve == \E t \in ResolveTokens : ListUsers(t) /\ UNCHANGED otherVars

NextResolve == DoResolve \/ DoLogout \/ DoTick

SpecResolve == InitUsers /\ [][NextResolve]_vars

\* the signature/expiry check of a token at this instant
TokenChecks(t) == t.sig = "valid" /\ t.exp >= now

\* the step just taken is an authenticated request (the clock stands still)
IsResolveStep == lastOp'.op = "list_users" /\ now' = now

\* what resolution answers, given the subjects that count as not parseable
ResolvesAsStated(unparseable) ==
    IsResolveStep =>
        LET t == lastOp'.tok
            parses == t.sub \notin unparseable
            user_id == ParseInt(t.sub)[1]
        IN /\ lastOp'.code = "OK" <=>
                 (TokenChecks(t) /\ parses /\ user_id \in DOMAIN users)
           /\ lastOp'.code = "OK" => lastOp'.uid = user_id
           /\ (~TokenChecks(t) \/ ~parses) => lastOp'.code = "INVALID_TOKEN"
           /\ (TokenChecks(t) /\ parses /\ user_id \notin DOMAIN users)
                 => lastOp'.code = "USER_NOT_FOUND"

-----------------------------------------------------------------------------
(* Specification of the sessions of requests (db.py): the projects exist,
   forgot-password requests are filed and approved, the first project is
   updated and users are listed; every request counts its commits *)

InitSession ==
    /\ InitActors
    /\ fpRequests = <<>>
    /\ projects = [i \in 1..MaxProjects |-> ProjectOf(NumActors)]
    /\ tasks = NoTasks
    /\ assignments = {}
    /\ members = {}
    /\ comments = NoComments
    /\ commits = 0
    /\ inflight = NoInflight

SessionUpdates ==
    {[status |-> "approve", budget |-> 0 - 1],
     [status |-> "completed"],
     [status |-> "bogus"],
     [description |-> "d2"]}

\* one commit, the last statement of the handler's success path
CommitsOf(code) == IF code = "OK" THEN 1 ELSE 0

sessionRest ==
    <<roles, tokens, issued, now, sess, tasks, assignments, members, comments, inflight>>

DoSessUpdateProject ==
    \E t \in ProjectCallers, id \in {1, MaxProjects + 1}, q \in SessionUpdates :
        /\ update_project(t, id, q)
        /\ commits' = IF update_project_session(t, id, q).committed THEN 1 ELSE 0
        /\ UNCHANGED <<users, fpRequests, sessionRest>>
DoSessForgot ==
    /\ ForgotPassword(UserName(NumActors), Unset, FullName(NumActors), "newpassword1")
    /\ commits' = CommitsOf(lastOp'.code)
    /\ UNCHANGED <<projects, sessionRest>>
DoSessApprove == \E t \in Presented, id \in RequestIds :
    /\ approve_forgot_password_request(t, id)
    /\ commits' = IF approve_session(t, id).committed THEN 1 ELSE 0
    /\ UNCHANGED <<projects, sessionRest>>
DoSessListUsers == \E t \in Presented :
    /\ ListUsers(t)
    /\ commits' = 0
    /\ UNCHANGED <<fpRequests, projects, sessionRest>>

NextSession == DoSessUpdateProject \/ DoSessForgot \/ DoSessApprove \/ DoSessListUsers

SpecSession == InitSession /\ [][NextSession]_vars

\* the tables of the store
Persisted ==
    <<users, roles, tokens, fpRequests, projects, tasks, assignments, members, comments>>

\* the handlers that only read
ReadOnlyOps == {"list_users"}

\* C25 as stated: a request that does not succeed leaves the store exactly as
\* it was, and every request that succeeds commits exactly once.
C25_FailureUnchangedSuccessOneCommit ==
    [][/\ lastOp'.code # "OK" => Persisted' = Persisted
       /\ lastOp'.code = "OK" => commits' = 1]_vars

\* C25, amended: a request that does not succeed leaves the store exactly as
\* it was and commits nothing, also when the handler has changed a row in
\* memory before it fails; a successful request that changes data commits
\* exactly once, and a successful read commits nothing and changes nothing.
C25_FailureUnchanged ==
    [][/\ lastOp'.code # "OK" => (Persisted' = Persisted /\ commits' = 0)
       /\ (lastOp'.code = "OK" /\ lastOp'.op \notin ReadOnlyOps) => commits' = 1
       /\ lastOp'.op \in ReadOnlyOps => (Persisted' = Persisted /\ commits' = 0)]_vars

\* the administrator asked for a status change and a negative budget: the
\* status was assigned in memory, the commit was refused, the project is as
\* it was
C25_Witness ==
    /\ lastOp.op = "update_project"
    /\ lastOp.code = "STORE_ERROR"
    /\ lastOp.arg = <<"approve", TRUE>>
    /\ is_admin(lastOp.uid)
    /\ commits = 0
    /\ \A id \in DOMAIN projects : projects[id] = ProjectOf(NumActors)
    /\ fpRequests # <<>>

-----------------------------------------------------------------------------
(* Concurrent requests.  Each request runs in a session of its own (db.py);
   a handler reads its rows, and its commit writes the columns it assigned
   to the rows with the ids it read.  No handler locks a row or compares a
   version, so another request may commit between the two. *)

MaxInflight == 2

Procs == 1..MaxInflight

Hold(p, r) == (p :> r) @@ inflight
Drop(p) == [q \in DOMAIN inflight \ {p} |-> inflight[q]]

\* every request carries a candidate of its own (a bcrypt hash is salted)
Candidates == <<"newpassword1", "newpassword2", "newpassword3", "newpassword4">>
CandidateOf(n) == Candidates[IF n <= Len(Candidates) THEN n ELSE Len(Candidates)]

raceRest ==
    <<roles, tokens, issued, now, sess, projects, tasks, assignments, members,
      comments, commits>>

DoRaceForgot ==
    /\ ForgotPassword(UserName(NumActors), Unset, FullName(NumActors),
                      CandidateOf(Len(fpRequests) + 1))
    /\ UNCHANGED <<raceRest, inflight>>

\* approve up to its commit: the request is read and tested, status and
\* password are assigned in the session
BeginApprove(p, t, id) ==
    /\ p \notin DOMAIN inflight
    /\ admin_required(t)
    /\ IF ApproveCheck(id) # "OK"
       THEN /\ lastOp' = Response("approve", ApproveCheck(id),
                                  get_user_from_token(t).user, t, id)
            /\ UNCHANGED inflight
       ELSE /\ inflight' = Hold(p, [op |-> "approve", tok |-> t, id |-> id,
                                    user_id |-> fpRequests[id].user_id,
                                    password |-> fpRequests[id].new_password])
            /\ UNCHANGED lastOp
    /\ UNCHANGED <<users, fpRequests, raceRest>>

\* db.commit() of approve: UPDATE ... SET status WHERE id, UPDATE users SET
\* password WHERE id
CommitApprove(p) ==
    /\ p \in DOMAIN inflight
    /\ inflight[p].op = "approve"
    /\ fpRequests' = [fpRequests EXCEPT ![inflight[p].id].status = "approved"]
    /\ users' = [users EXCEPT ![inflight[p].user_id].password = inflight[p].password]
    /\ lastOp' = Response("approve", "OK", get_user_from_token(inflight[p].tok).user,
                          inflight[p].tok, inflight[p].id)
    /\ inflight' = Drop(p)
    /\ UNCHANGED raceRest

\* reject up to its commit
BeginReject(p, t, id) ==
    /\ p \notin DOMAIN inflight
    /\ admin_required(t)
    /\ IF RejectCheck(id) # "OK"
       THEN /\ lastOp' = Response("reject", RejectCheck(id),
                                  get_user_from_token(t).user, t, id)
            /\ UNCHANGED inflight
       ELSE /\ inflight' = Hold(p, [op |-> "reject", tok |-> t, id |-> id])
            /\ UNCHANGED lastOp
    /\ UNCHANGED <<users, fpRequests, raceRest>>

\* db.commit() of reject: UPDATE ... SET status WHERE id
CommitReject(p) ==
    /\ p \in DOMAIN inflight
    /\ inflight[p].op = "reject"
    /\ fpRequests' = [fpRequests EXCEPT ![inflight[p].id].status = "denied"]
    /\ lastOp' = Response("reject", "OK", get_user_from_token(inflight[p].tok).user,
                          inflight[p].tok, inflight[p].id)
    /\ inflight' = Drop(p)
    /\ UNCHANGED <<users, raceRest>>

RaceCallers == {ActorToken(1)}

DoBeginApprove == \E p \in Procs, t \in RaceCallers, id \in RequestIds :
    BeginApprove(p, t, id)
DoCommitApprove == \E p \in Procs : CommitApprove(p)
DoBeginReject == \E p \in Procs, t \in RaceCallers, id \in RequestIds :
    BeginReject(p, t, id)
DoCommitReject == \E p \in Procs : CommitReject(p)

NextRace ==
    \/ DoRaceForgot
    \/ DoBeginApprove
    \/ DoCommitApprove
    \/ DoBeginReject
    \/ DoCommitReject

SpecRace == InitForgot /\ [][NextRace]_vars

\* C27: also when an approve and a reject of the same pending request run
\* concurrently, the request is resolved at most once: no request is denied
\* while its user's password is the candidate hash of that request.
C27_DeniedRequestPasswordKept ==
    \A id \in DOMAIN fpRequests :
        ~(/\ fpRequests[id].status = "denied"
          /\ users[fpRequests[id].user_id].password = fpRequests[id].new_password)

-----------------------------------------------------------------------------
(* routers/users.py: update_user.  A user_update is a record of the fields
   the request body sets (model_dump(exclude_unset=True)) *)

\* a non-admin's update with every field let through
AllFieldsAllowed ==
    {"full_name", "email", "avatar", "password", "username", "role_id", "status"}

allowed_fields == {"full_name", "email", "avatar", "password", "username"}

Restrict(q, fields) == [k \in DOMAIN q \cap fields |-> q[k]]

\* update_data after the filters: the fields of the User model, and for a
\* caller who is not admin the allowed fields only
update_data(caller, row, user_update) ==
    IF is_admin(caller)
    THEN Restrict(user_update, DOMAIN row)
    ELSE Restrict(user_update, DOMAIN row \cap allowed_fields)

\* the row after the setattr loop; the password is stored hashed
UserWrite(row, d) ==
    [f \in DOMAIN row |->
        IF f \notin DOMAIN d THEN row[f]
        ELSE IF f = "password" THEN BcryptHash(d[f]) ELSE d[f]]

\* the checks of update_user in the order of the code; "NOTHING" is the
\* successful answer "No fields to update."
update_user_check(t, id, user_update) ==
    LET r == get_user_from_token(t)
    IN IF r.error # "NONE" THEN r.error
       ELSE IF id \notin DOMAIN users THEN "USER_NOT_FOUND"
       ELSE IF ~is_admin(r.user) /\ r.user # id THEN "FORBIDDEN"
       ELSE LET d == update_data(r.user, users[id], user_update)
            IN IF DOMAIN d = {} THEN "NOTHING"
               ELSE IF /\ "username" \in DOMAIN d
                       /\ d.username # users[id].username
                       /\ \E u \in DOMAIN users : users[u].username = d.username
               THEN "USERNAME_EXISTS"
               ELSE IF /\ "email" \in DOMAIN d
                       /\ d.email # users[id].email
                       /\ \E u \in DOMAIN users : users[u].email = d.email
               THEN "EMAIL_EXISTS"
               ELSE IF "role_id" \in DOMAIN d /\ d.role_id \notin RoleIds
               THEN "ROLE_NOT_FOUND"
               ELSE IF "status" \in DOMAIN d /\ d.status \notin UserStatusEnum
               THEN "INVALID_STATUS"
               ELSE "OK"

update_user(t, id, user_update) ==
    LET r == get_user_from_token(t)
        code == update_user_check(t, id, user_update)
    IN /\ lastOp' = Response("update_user", IF code = "NOTHING" THEN "OK" ELSE code,
                             r.user, t, <<id, user_update>>)
       /\ users' = IF code = "OK"
                   THEN [users EXCEPT
                            ![id] = UserWrite(@, update_data(r.user, @, user_update))]
                   ELSE users

-----------------------------------------------------------------------------
(* routers/users.py: create_user and update_user running concurrently.  Both
   look for a row with the username and the email before they write, and the
   users table has no unique constraint on either column (models/core.py) *)

\* create_user up to its commit
BeginCreateUser(p, t, payload) ==
    LET r == require_admin_user(t)
        code == IF r.error # "NONE" THEN r.error
                ELSE IF \E u \in DOMAIN users : users[u].username = payload.username
                THEN "USERNAME_EXISTS"
                ELSE IF \E u \in DOMAIN users : users[u].email = payload.email
                THEN "EMAIL_EXISTS"
                ELSE IF payload.role_id \notin RoleIds THEN "ROLE_NOT_FOUND"
                ELSE IF CreateUserStatus(payload) = "INVALID_STATUS"
                THEN "INVALID_STATUS"
                ELSE "OK"
    IN /\ p \notin DOMAIN inflight
       /\ IF code # "OK"
          THEN /\ lastOp' = Response("create_user", code, r.user, t, payload)
               /\ UNCHANGED inflight
          ELSE /\ inflight' = Hold(p, [op |-> "create_user", tok |-> t,
                                       arg |-> payload,
                                       row |-> [username |-> payload.username,
                                                email |-> payload.email,
                                                full_name |-> payload.full_name,
                                                password |-> BcryptHash(payload.password),
                                                role_id |-> payload.role_id,
                                                status |-> CreateUserStatus(payload),
                                                last_login |-> Unset]])
               /\ UNCHANGED lastOp
       /\ UNCHANGED <<users, fpRequests, raceRest>>

\* db.add(db_user); db.commit(): INSERT INTO users
CommitCreateUser(p) ==
    /\ p \in DOMAIN inflight
    /\ inflight[p].op = "create_user"
    /\ Len(users) < NumActors + MaxInflight
    /\ users' = Append(users, inflight[p].row)
    /\ lastOp' = Response("create_user", "OK",
                          get_user_from_token(inflight[p].tok).user,
                          inflight[p].tok, inflight[p].arg)
    /\ inflight' = Drop(p)
    /\ UNCHANGED <<fpRequests, raceRest>>

\* update_user up to its commit
BeginUpdateUser(p, t, id, user_update) ==
    LET r == get_user_from_token(t)
        code == update_user_check(t, id, user_update)
    IN /\ p \notin DOMAIN inflight
       /\ IF code # "OK"
          THEN /\ lastOp' = Response("update_user",
                                     IF code = "NOTHING" THEN "OK" ELSE code,
                                     r.user, t, <<id, user_update>>)
               /\ UNCHANGED inflight
          ELSE /\ inflight' = Hold(p, [op |-> "update_user", tok |-> t, id |-> id,
                                       arg |-> <<id, user_update>>,
                                       data |-> update_data(r.user, users[id],
                                                            user_update)])
               /\ UNCHANGED lastOp
       /\ UNCHANGED <<users, fpRequests, raceRest>>

\* db.commit(): UPDATE users SET the assigned columns WHERE id
CommitUpdateUser(p) ==
    /\ p \in DOMAIN inflight
    /\ inflight[p].op = "update_user"
    /\ users' = [users EXCEPT ![inflight[p].id] = UserWrite(@, inflight[p].data)]
    /\ lastOp' = Response("update_user", "OK",
                          get_user_from_token(inflight[p].tok).user,
                          inflight[p].tok, inflight[p].arg)
    /\ inflight' = Drop(p)
    /\ UNCHANGED <<fpRequests, raceRest>>

UserRacePayloads ==
    {UserPayload(NumActors + 1, NumActors + 1, NotSupplied, 2),
     UserPayload(NumActors + 1, NumActors + 2, NotSupplied, 2),
     UserPayload(1, NumActors + 1, NotSupplied, 2)}

UserRaceUpdates ==
    {[username |-> UserName(NumActors + 1)],
     [email |-> UserEmail(NumActors + 1)],
     [email |-> UserEmail(1), full_name |-> FullName(0)]}

UserRaceCallers == {ActorToken(1), ActorToken(NumActors)}

DoBeginCreateUser == \E p \in Procs, t \in UserRaceCallers, q \in UserRacePayloads :
    BeginCreateUser(p, t, q)
DoCommitCreateUser == \E p \in Procs : CommitCreateUser(p)
DoBeginUpdateUser ==
    \E p \in Procs, t \in UserRaceCallers, id \in {1, NumActors}, q \in UserRaceUpdates :
        BeginUpdateUser(p, t, id, q)
DoCommitUpdateUser == \E p \in Procs : CommitUpdateUser(p)

NextUserRace ==
    \/ DoBeginCreateUser
    \/ DoCommitCreateUser
    \/ DoBeginUpdateUser
    \/ DoCommitUpdateUser

SpecUserRace == InitUsers /\ [][NextUserRace]_vars

\* C28: no two User rows share a username and no two share an email, also
\* when create_user and update_user requests for the same username or email
\* run concurrently.
C28_UsernameAndEmailUnique ==
    \A u, v \in DOMAIN users :
        u # v => /\ users[u].username # users[v].username
                 /\ users[u].email # users[v].email

-----------------------------------------------------------------------------
(* routers/roles.py *)

\* the dependency of the role handlers: the admin, or the error envelope
require_admin(t) == require_admin_user(t)

MaxNewRoles == 1

create_role(t, name) ==
    LET r == require_admin(t)
        resp(code) == Response("create_role", code, r.user, t, name)
    IN IF r.error # "NONE"
       THEN lastOp' = resp(r.error) /\ UNCHANGED <<users, roles>>
       ELSE /\ Len(roles) < Len(InitRoles) + MaxNewRoles
            /\ roles' = Append(roles, name)
            /\ lastOp' = resp("OK")
            /\ UNCHANGED users

update_role(t, id, name) ==
    LET r == require_admin(t)
        resp(code) == Response("update_role", code, r.user, t, <<id, name>>)
    IN IF r.error # "NONE"
       THEN lastOp' = resp(r.error) /\ UNCHANGED <<users, roles>>
       ELSE IF id \notin RoleIds
       THEN lastOp' = resp("ROLE_NOT_FOUND") /\ UNCHANGED <<users, roles>>
       ELSE /\ roles' = [roles EXCEPT ![id] = name]
            /\ lastOp' = resp("OK")
            /\ UNCHANGED users

\* db.delete(role): the users of the role are detached (Role.users has no
\* delete cascade, so their role_id becomes NULL) and the row is removed
delete_role(t, id) ==
    LET r == require_admin(t)
        resp(code) == Response("delete_role", code, r.user, t, id)
    IN IF r.error # "NONE"
       THEN lastOp' = resp(r.error) /\ UNCHANGED <<users, roles>>
       ELSE IF id \notin RoleIds
       THEN lastOp' = resp("ROLE_NOT_FOUND") /\ UNCHANGED <<users, roles>>
       ELSE /\ roles' = [roles EXCEPT ![id] = DeletedRole]
            /\ users' = [u \in DOMAIN users |->
                            IF users[u].role_id = id
                            THEN [users[u] EXCEPT !.role_id = NoRole]
                            ELSE users[u]]
            /\ lastOp' = resp("OK")

assign_role(t, id, user_id) ==
    LET r == require_admin(t)
        resp(code) == Response("assign_role", code, r.user, t, <<id, user_id>>)
    IN IF r.error # "NONE"
       THEN lastOp' = resp(r.error) /\ UNCHANGED <<users, roles>>
       ELSE IF id \notin RoleIds
       THEN lastOp' = resp("ROLE_NOT_FOUND") /\ UNCHANGED <<users, roles>>
       ELSE IF user_id \notin DOMAIN users
       THEN lastOp' = resp("USER_NOT_FOUND") /\ UNCHANGED <<users, roles>>
       ELSE /\ users' = [users EXCEPT ![user_id].role_id = id]
            /\ lastOp' = resp("OK")
            /\ UNCHANGED roles

-----------------------------------------------------------------------------
(* Specification of roles and users: every operation that writes a user's
   role_id or status, or a role, called by admins and by others *)

RoleNames == {"ADMIN"}

RoleCallers == {ActorToken(i) : i \in 1..NumActors}

RoleUserUpdates ==
    {[role_id |-> 1, status |-> "banned", full_name |-> FullName(0)]}

RoleUserPayloads == {UserPayload(NumActors + 1, NumActors + 1, NotSupplied, 1)}

UserIds == {NumActors, NumActors + 1}
RoleTargets == {Len(InitRoles), Len(InitRoles) + 1}

rolesRest ==
    <<tokens, issued, now, sess, fpRequests, projects, tasks, assignments, members,
      comments, commits, inflight>>

DoRoleUpdateUser == \E t \in RoleCallers, id \in {1, NumActors}, q \in RoleUserUpdates :
    update_user(t, id, q) /\ UNCHANGED <<roles, rolesRest>>
DoRoleCreateUser == \E t \in RoleCallers, q \in RoleUserPayloads :
    create_user(t, q) /\ UNCHANGED <<roles, rolesRest>>
DoRoleDeleteUser == \E t \in RoleCallers, id \in {NumActors} :
    delete_user(t, id) /\ UNCHANGED <<roles, rolesRest>>
DoCreateRole == \E t \in RoleCallers, name \in RoleNames :
    create_role(t, name) /\ UNCHANGED rolesRest
DoUpdateRole == \E t \in RoleCallers, id \in RoleTargets, name \in RoleNames :
    update_role(t, id, name) /\ UNCHANGED rolesRest
DoDeleteRole == \E t \in RoleCallers, id \in {Len(InitRoles)} :
    delete_role(t, id) /\ UNCHANGED rolesRest
DoAssignRole == \E t \in RoleCallers, id \in {1}, user_id \in UserIds :
    assign_role(t, id, user_id) /\ UNCHANGED rolesRest

NextRoles ==
    \/ DoRoleUpdateUser
    \/ DoRoleCreateUser
    \/ DoRoleDeleteUser
    \/ DoCreateRole
    \/ DoUpdateRole
    \/ DoDeleteRole
    \/ DoAssignRole

SpecRoles == InitUsers /\ [][NextRoles]_vars

AdminOnlyOps ==
    {"create_user", "delete_user", "assign_role", "create_role", "update_role",
     "delete_role"}

\* the request of this step was made with token t, by a user who is not admin
ByNonAdmin(t) ==
    /\ lastOp'.tok = t
    /\ get_user_from_token(t).error = "NONE"
    /\ ~is_admin(get_user_from_token(t).user)

\* C29: no request of a principal who is not admin changes a user's role_id
\* or status, creates a user or changes a role; the admin-only operations
\* answer FORBIDDEN, update_user on another user answers FORBIDDEN, and
\* update_user on oneself writes the update without role_id and status.  So
\* no such request makes an admin of a user who was none.
C29_NonAdminCannotChangeRoleOrStatus ==
    [][\A t \in RoleCallers : ByNonAdmin(t) =>
          LET self == get_user_from_token(t).user
          IN /\ DOMAIN users' = DOMAIN users
             /\ roles' = roles
             /\ \A u \in DOMAIN users :
                   /\ users'[u].role_id = users[u].role_id
                   /\ users'[u].status = users[u].status
                   /\ u # self => users'[u] = users[u]
                   /\ ~is_admin(u) => ~is_admin(u)'
             /\ lastOp'.op \in AdminOnlyOps => lastOp'.code = "FORBIDDEN"
             /\ (/\ lastOp'.op = "update_user"
                 /\ lastOp'.arg[1] \in DOMAIN users
                 /\ lastOp'.arg[1] # self) => lastOp'.code = "FORBIDDEN"
             /\ (/\ lastOp'.op = "update_user"
                 /\ lastOp'.arg[1] = self) =>
                    /\ lastOp'.code = "OK"
                    /\ users'[self] =
                          UserWrite(users[self],
                                    Restrict(lastOp'.arg[2],
                                             DOMAIN lastOp'.arg[2] \ {"role_id", "status"}))]_vars

\* a user who is not admin sent role_id 1 and a status with a new full name
\* for themselves: the name was written, role and status were not
C29_Witness ==
    /\ lastOp.op = "update_user" /\ lastOp.code = "OK"
    /\ lastOp.uid = NumActors
    /\ lastOp.arg[1] = NumActors
    /\ "role_id" \in DOMAIN lastOp.arg[2]
    /\ "full_name" \in DOMAIN lastOp.arg[2]
    /\ users[NumActors].full_name = FullName(0)
    /\ users[NumActors].role_id = 2
    /\ users[NumActors].status = "active"
    /\ ~is_admin(NumActors)

-----------------------------------------------------------------------------
(* Specification of a user's status against the tokens the user holds: an
   admin deactivates, bans and reactivates a user who logs in and lists
   users while time passes *)

\* the users are active; only the admin holds a token yet
InitStatus ==
    /\ users = [i \in 1..NumActors |-> ActorRow(i)]
    /\ roles = InitRoles
    /\ tokens = {[user_id |-> 1, token |-> ActorToken(1), created_at |-> 0,
                  expires_at |-> TTL]}
    /\ issued = {ActorToken(1)}
    /\ now = 0
    /\ lastOp = NoResponse
    /\ sess = NoSession
    /\ fpRequests = <<>>
    /\ projects = <<>>
    /\ tasks = NoTasks
    /\ assignments = {}
    /\ members = {}
    /\ comments = NoComments
    /\ commits = 0
    /\ inflight = NoInflight

StatusUpdates == {[status |-> "banned"], [status |-> "active"]}

StatusLogins ==
    {<<UserName(NumActors), Unset, GoodPassword>>,
     <<UserName(NumActors), Unset, WrongPassword>>}

statusRest ==
    <<roles, now, sess, fpRequests, projects, tasks, assignments, members, comments,
      commits, inflight>>

DoStatusDelete == \E t \in {ActorToken(1), ActorToken(NumActors)} :
    /\ delete_user(t, NumActors)
    /\ UNCHANGED <<tokens, issued, statusRest>>
DoStatusUpdate == \E q \in StatusUpdates :
    /\ update_user(ActorToken(1), NumActors, q)
    /\ UNCHANGED <<tokens, issued, statusRest>>
DoStatusLogin == \E q \in StatusLogins :
    Login(q[1], q[2], q[3]) /\ UNCHANGED statusRest
DoStatusList == \E t \in issued : ListUsers(t) /\ UNCHANGED statusRest

NextStatus ==
    \/ DoStatusDelete
    \/ DoStatusUpdate
    \/ DoStatusLogin
    \/ DoStatusList
    \/ DoTick

SpecStatus == InitStatus /\ [][NextStatus]_vars

\* C30: resolving the principal of a token does not look at the user's
\* status: a token that was issued is accepted by an authenticated
\* operation and resolves to its user exactly until it expires, whatever the
\* status of the user has become; the status only blocks a login, which
\* then issues no token.
C30_StatusBlocksOnlyLogin ==
    [][now' = now =>
          /\ lastOp'.op = "list_users" =>
                \A t \in issued : lastOp'.tok = t =>
                    IF t.exp < now
                    THEN lastOp'.code = "INVALID_TOKEN"
                    ELSE /\ lastOp'.code = "OK"
                         /\ StrOfInt(lastOp'.uid) = t.sub
          /\ lastOp'.op = "login" =>
                \A u \in DOMAIN users :
                    (lastOp'.uid = u /\ users[u].status # "active")
                        => /\ lastOp'.code = "USER_NOT_ACTIVE"
                           /\ issued' = issued
                           /\ tokens' = tokens]_vars

\* the token a user got while active was accepted after the user was
\* deactivated or banned, and a login of that user had been refused at the
\* same instant or before
C30_Witness ==
    /\ lastOp.op = "list_users" /\ lastOp.code = "OK"
    /\ lastOp.uid = NumActors
    /\ lastOp.tok \in issued
    /\ lastOp.tok.sub = StrOfInt(NumActors)
    /\ users[NumActors].status \in {"inactive", "banned"}

=============================================================================
